---- MODULE Spec2Model ----
(***************************************************************************)
(* Ledger import and financial-statement aggregation engine                *)
(* (src/src/adapters/razao-importer.ts, razao-aggregator.ts).              *)
(*                                                                         *)
(* Conventions of the model                                                *)
(*  - a JavaScript string is a sequence of one-character strings;          *)
(*  - a JavaScript number is an integer count of hundredths (1234.56 is    *)
(*    123456), so that String(n), parseFloat(s) and Number.isInteger(n)    *)
(*    are computed, not assumed;                                           *)
(*  - a cell of a RawRow is a record [t, s, v]: t = "str" (s the text),    *)
(*    t = "num" (v the number), t = "null" (null or undefined stored in    *)
(*    the array) or t = "hole" (an index of a sparse array never written); *)
(*  - intermediate values are handed on as operator parameters (the        *)
(*    operators named ...On, ...At, ...With) rather than LET definitions,  *)
(*    which keeps every value computed once.                               *)
(***************************************************************************)
EXTENDS Integers, Sequences, FiniteSets, TLC

VARIABLES
    op,        \* the entry point this behaviour exercises
    pc,        \* the position inside that entry point
    rows,      \* the RawRow[] grid handed to an entry point; StepRazaoImport: rawRows
    curRow,    \* parseLedger's loop: rows[i], the row of the current iteration
    nRead,     \* parseLedger's loop: i, the number of rows read so far
    config,    \* the ColumnConfig; StepRazaoImport: columnConfig (<<>> stands for null)
    cur,       \* parseLedger: currentAccount (<<>> stands for null); updateMapping: the overrides made;
               \* StepRazaoImport: the continuations still pending
    accounts,  \* parseLedger: accounts emitted so far; deduplicateAccounts: input
    out,       \* the value the entry point returned; StepRazaoImport: parsedLedger
    mappings,  \* LedgerMapping[] of the import wizard
    stmt,      \* the statements aggregated from out and mappings; StepRazaoImport: the requests made
    data,      \* parseBiffManual: the bytes of the Workbook stream
    biff,      \* parseBiffManual: the state of the record scan
    env        \* readRawRows: what the xlsx / CFB library does with the file;
               \* StepRazaoImport: the remaining React state

vars == <<op, pc, rows, curRow, nRead, config, cur, accounts, out, mappings, stmt, data, biff, env>>

-----------------------------------------------------------------------------
(* Text *)

UpperToLower ==
    ("A" :> "a") @@ ("B" :> "b") @@ ("C" :> "c") @@ ("D" :> "d") @@ ("E" :> "e") @@
    ("F" :> "f") @@ ("G" :> "g") @@ ("H" :> "h") @@ ("I" :> "i") @@ ("J" :> "j") @@
    ("K" :> "k") @@ ("L" :> "l") @@ ("M" :> "m") @@ ("N" :> "n") @@ ("O" :> "o") @@
    ("P" :> "p") @@ ("Q" :> "q") @@ ("R" :> "r") @@ ("S" :> "s") @@ ("T" :> "t") @@
    ("U" :> "u") @@ ("V" :> "v") @@ ("W" :> "w") @@ ("X" :> "x") @@ ("Y" :> "y") @@
    ("Z" :> "z") @@ ("Í" :> "í") @@ ("É" :> "é") @@ ("Ã" :> "ã") @@ ("Ê" :> "ê") @@
    ("Ó" :> "ó") @@ ("Á" :> "á") @@ ("Ç" :> "ç")

LowerChar(c) == IF c \in DOMAIN UpperToLower THEN UpperToLower[c] ELSE c

\* String.prototype.toLowerCase
Lower(s) == [k \in 1..Len(s) |-> LowerChar(s[k])]

Digits == {"0", "1", "2", "3", "4", "5", "6", "7", "8", "9"}

DigitVal ==
    ("0" :> 0) @@ ("1" :> 1) @@ ("2" :> 2) @@ ("3" :> 3) @@ ("4" :> 4) @@
    ("5" :> 5) @@ ("6" :> 6) @@ ("7" :> 7) @@ ("8" :> 8) @@ ("9" :> 9)

DigitChar == <<"0", "1", "2", "3", "4", "5", "6", "7", "8", "9">>

\* the characters \s matches, among those the model writes
IsSpace(c) == c = " "

\* the characters of s at the positions a..b that s has
Sub(s, a, b) ==
    IF (IF a < 1 THEN 1 ELSE a) > (IF b > Len(s) THEN Len(s) ELSE b) THEN <<>>
    ELSE SubSeq(s, IF a < 1 THEN 1 ELSE a, IF b > Len(s) THEN Len(s) ELSE b)

\* the length of the longest prefix of s, from position k on, made of digits
RECURSIVE DigitRun(_, _)
DigitRun(s, k) ==
    IF k <= Len(s) /\ s[k] \in Digits THEN 1 + DigitRun(s, k + 1) ELSE 0

\* the length of the longest run of \s from position k on
RECURSIVE SpaceRun(_, _)
SpaceRun(s, k) ==
    IF k >= 1 /\ k <= Len(s) /\ IsSpace(s[k]) THEN 1 + SpaceRun(s, k + 1) ELSE 0

\* the length of the longest run of \s ending at position k
RECURSIVE SpaceRunBack(_, _)
SpaceRunBack(s, k) ==
    IF k >= 1 /\ k <= Len(s) /\ IsSpace(s[k]) THEN 1 + SpaceRunBack(s, k - 1) ELSE 0

\* String.prototype.trim
Trim(s) == Sub(s, 1 + SpaceRun(s, 1), Len(s) - SpaceRunBack(s, Len(s)))

\* String.prototype.includes
Includes(s, kw) ==
    \E k \in 0..(Len(s) - Len(kw)) : \A j \in 1..Len(kw) : s[k + j] = kw[j]

\* String.prototype.startsWith / endsWith
StartsWith(s, p) == Len(s) >= Len(p) /\ \A j \in 1..Len(p) : s[j] = p[j]

EndsWith(s, p) ==
    Len(s) >= Len(p) /\ \A j \in 1..Len(p) : s[Len(s) - Len(p) + j] = p[j]

\* the value of the digits of s at the positions a..b
RECURSIVE DigitsVal(_, _, _)
DigitsVal(s, a, b) ==
    IF a > b THEN 0 ELSE 10 * DigitsVal(s, a, b - 1) + DigitVal[s[b]]

\* the decimal digits of a natural number
RECURSIVE NatToStr(_)
NatToStr(k) ==
    IF k < 10 THEN <<DigitChar[k + 1]>>
    ELSE NatToStr(k \div 10) \o <<DigitChar[(k % 10) + 1]>>

Pad2(s) == IF Len(s) < 2 THEN <<"0">> \o s ELSE s

\* the fraction of String(n) for frac hundredths: "", ".5", ".56", ".05"
FracStr(frac) ==
    IF frac = 0 THEN <<>>
    ELSE IF frac % 10 = 0 THEN <<".", DigitChar[(frac \div 10) + 1]>>
    ELSE <<".", DigitChar[(frac \div 10) + 1], DigitChar[(frac % 10) + 1]>>

\* String(n) for a number (hundredths): "600", "1234.56", "0.5", "-500"
NumToStr(v) ==
    IF v < 0 THEN <<"-">> \o NatToStr((0 - v) \div 100) \o FracStr((0 - v) % 100)
    ELSE NatToStr(v \div 100) \o FracStr(v % 100)

\* parseFloat on s whose number starts at st, with nInt integer digits and
\* nFrac fraction digits; fraction digits after the second are below the
\* model's resolution
ParseFloatWith(s, neg, st, nInt, nFrac) ==
    [nan |-> nInt + nFrac = 0,
     v   |-> (IF neg THEN -1 ELSE 1) *
             (DigitsVal(s, st, st + nInt - 1) * 100
              + (IF nFrac >= 1 THEN 10 * DigitVal[s[st + nInt + 1]] ELSE 0)
              + (IF nFrac >= 2 THEN DigitVal[s[st + nInt + 2]] ELSE 0))]

ParseFloatAt(s, neg, st, nInt) ==
    ParseFloatWith(s, neg, st, nInt,
                   IF st + nInt <= Len(s) /\ s[st + nInt] = "."
                   THEN DigitRun(s, st + nInt + 1) ELSE 0)

ParseFloatOn(s) ==
    IF Len(s) >= 1 /\ s[1] \in {"-", "+"}
    THEN ParseFloatAt(s, s[1] = "-", 2, DigitRun(s, 2))
    ELSE ParseFloatAt(s, FALSE, 1, DigitRun(s, 1))

\* parseFloat: leading blanks, an optional sign, digits, an optional fraction;
\* the longest such prefix; NaN when it holds no digit
ParseFloat(s) == ParseFloatOn(Trim(s))

-----------------------------------------------------------------------------
(* Cells and rows *)

Str(s)   == [t |-> "str", s |-> s, v |-> 0]
Num(v)   == [t |-> "num", s |-> <<>>, v |-> v]
NullCell == [t |-> "null", s |-> <<>>, v |-> 0]
Hole     == [t |-> "hole", s |-> <<>>, v |-> 0]

\* row[k] of the code for a zero-based index k: undefined past the end, for a
\* negative index and for a hole
At(r, k) == IF k >= 0 /\ k < Len(r) THEN r[k + 1] ELSE Hole

\* cell == null (null or undefined)
IsNullish(c) == c.t \in {"null", "hole"}

\* String(cell ?? '')
CellStr(c) == IF c.t = "str" THEN c.s ELSE IF c.t = "num" THEN NumToStr(c.v) ELSE <<>>

\* the truthiness of a cell: '' , 0, null and undefined are falsy
Truthy(c) == (c.t = "str" /\ c.s # <<>>) \/ (c.t = "num" /\ c.v # 0)

\* row.map((c) => String(c ?? '')).join(' '): a hole joins as the empty string
RECURSIVE JoinCells(_)
JoinCells(r) ==
    IF r = <<>> THEN <<>>
    ELSE IF Len(r) = 1 THEN CellStr(r[1])
    ELSE CellStr(r[1]) \o <<" ">> \o JoinCells(Tail(r))

-----------------------------------------------------------------------------
(* Constants of razao-importer.ts *)

\* the characters of [-–—]; the en and em dash are written by name
Dashes == {"-", "endash", "emdash"}

SALDO_KEYWORDS == <<
    <<"s","a","l","d","o"," ","a","n","t","e","r","i","o","r">>,
    <<"s","a","l","d","o"," ","f","i","n","a","l">>,
    <<"s","a","l","d","o"," ","i","n","i","c","i","a","l">>,
    <<"t","o","t","a","i","s"," ","d","o"," ","p","e","r">>,
    <<"t","o","t","a","l"," ","d","o"," ","p","e","r">>,
    <<"t","o","t","a","i","s"," ","d","o"," ","m","ê","s">>,
    <<"t","o","t","a","l"," ","d","o"," ","m","ê","s">>,
    <<"t","o","t","a","l"," ","d","o"," ","m","e","s">>,
    <<"t","r","a","n","s","p","o","r","t","e">> >>

HEADER_KEYWORDS == {
    <<"l","i","v","r","o"," ","r","a","z">>,
    <<"r","a","z","ã","o">>,
    <<"r","a","z","a","o">>,
    <<"r","e","l","a","t","ó","r","i","o">>,
    <<"r","e","l","a","t","o","r","i","o">>,
    <<"e","m","p","r","e","s","a",":">>,
    <<"c",".","n",".","p",".","j">>,
    <<"c","n","p","j",":">>,
    <<"p","e","r","í","o","d","o",":">>,
    <<"p","e","r","i","o","d","o",":">>,
    <<"p","á","g","i","n","a">>,
    <<"p","a","g","i","n","a">>,
    <<"e","m","i","s","s","ã","o">>,
    <<"e","m","i","s","s","a","o">>}

kwData       == <<"d","a","t","a">>
kwDebitoA    == <<"d","é","b","i","t","o">>
kwDebito     == <<"d","e","b","i","t","o">>
kwCreditoA   == <<"c","r","é","d","i","t","o">>
kwCredito    == <<"c","r","e","d","i","t","o">>
kwSaldo      == <<"s","a","l","d","o">>
kwExerc      == <<"e","x","e","r","c">>
kwHistoricoA == <<"h","i","s","t","ó","r","i","c","o">>
kwHistorico  == <<"h","i","s","t","o","r","i","c","o">>
kwConta      == <<"c","o","n","t","a",":">>
kwAnterior   == <<"a","n","t","e","r","i","o","r">>
kwInicial    == <<"i","n","i","c","i","a","l">>
kwFinal      == <<"f","i","n","a","l">>
kwTotais     == <<"t","o","t","a","i","s">>
kwTotal      == <<"t","o","t","a","l">>

\* ACCOUNT_CODE_RE = /^(\d+\.)+\d+$/
ACCOUNT_CODE_RE(s) ==
    /\ Len(s) >= 3
    /\ \A k \in 1..Len(s) : s[k] \in Digits \cup {"."}
    /\ s[1] \in Digits /\ s[Len(s)] \in Digits
    /\ \E k \in 1..Len(s) : s[k] = "."
    /\ \A k \in 1..(Len(s) - 1) : ~(s[k] = "." /\ s[k + 1] = ".")

\* the length of the longest prefix of s, from position k on, of the shape
\* \d+(?:\.\d+)* ; 0 when s[k] is no digit
RECURSIVE CodeRun(_, _)
CodeRunWith(s, k, d) ==
    IF d = 0 THEN 0
    ELSE IF k + d <= Len(s) /\ s[k + d] = "." /\ DigitRun(s, k + d + 1) > 0
         THEN d + 1 + CodeRun(s, k + d + 1)
         ELSE d

CodeRun(s, k) == CodeRunWith(s, k, DigitRun(s, k))

\* match[2] of ACCOUNT_HEADER_RE, rest being the text after the dash: \s* is
\* greedy and gives one character back when (.+) would be empty
HeaderGroup2(rest, lead) ==
    IF lead = Len(rest) THEN Sub(rest, Len(rest), Len(rest))
    ELSE Sub(rest, lead + 1, Len(rest))

\* ACCOUNT_HEADER_RE on s, the code being s[st .. st + len - 1] and the dash
\* expected at dpos
MatchHeaderDash(s, st, len, dpos) ==
    [ok   |-> /\ len > 0
              /\ \E k \in st..(st + len - 1) : s[k] = "."
              /\ dpos <= Len(s) /\ s[dpos] \in Dashes
              /\ dpos < Len(s),
     code |-> Sub(s, st, st + len - 1),
     name |-> HeaderGroup2(Sub(s, dpos + 1, Len(s)), SpaceRun(s, dpos + 1))]

MatchHeaderCode(s, st, len) == MatchHeaderDash(s, st, len, st + len + SpaceRun(s, st + len))

MatchHeaderFrom(s, st) == MatchHeaderCode(s, st, CodeRun(s, st))

\* str.match(ACCOUNT_HEADER_RE), ACCOUNT_HEADER_RE =
\* /^(?:Conta:\s*)?(\d+(?:\.\d+)+)\s*[-–—]\s*(.+)/i : [ok, code, name], name
\* being match[2]
MatchAccountHeader(s) ==
    IF StartsWith(Lower(s), kwConta)
    THEN MatchHeaderFrom(s, Len(kwConta) + 1 + SpaceRun(s, Len(kwConta) + 1))
    ELSE MatchHeaderFrom(s, 1)

\* BR_DATE_RE on s with nd day digits, the month at p2 with nm digits, the
\* year at p3 with ny digits
MatchBrDateWith(s, nd, p2, nm, p3, ny) ==
    [ok |-> /\ nd \in 1..2
            /\ nd + 1 <= Len(s) /\ s[nd + 1] = "/"
            /\ nm \in 1..2
            /\ p2 + nm <= Len(s) /\ s[p2 + nm] = "/"
            /\ ny \in 2..4
            /\ p3 + ny - 1 = Len(s),
     d  |-> Sub(s, 1, nd),
     m  |-> Sub(s, p2, p2 + nm - 1),
     y  |-> Sub(s, p3, p3 + ny - 1)]

MatchBrDateMonth(s, nd, nm) ==
    MatchBrDateWith(s, nd, nd + 2, nm, nd + nm + 3, DigitRun(s, nd + nm + 3))

MatchBrDateDay(s, nd) == MatchBrDateMonth(s, nd, DigitRun(s, nd + 2))

\* BR_DATE_RE = /^(\d{1,2})\/(\d{1,2})\/(\d{2,4})$/ : [ok, d, m, y]
MatchBrDate(s) == MatchBrDateDay(s, DigitRun(s, 1))

-----------------------------------------------------------------------------
(* Dates *)

\* isExcelDateSerial: a number, > 36000, < 74000, an integer
isExcelDateSerial(c) ==
    c.t = "num" /\ c.v > 36000 * 100 /\ c.v < 74000 * 100 /\ c.v % 100 = 0

\* the civil date of a day of a 400-year era: doe the day of the era, yoe the
\* year of the era, doy the day of the year counted from March 1st, mp the
\* month counted from March
CivilYMD(y, m, d) ==
    NatToStr(y) \o <<"-">> \o Pad2(NatToStr(m)) \o <<"-">> \o Pad2(NatToStr(d))

CivilOfMonth(era, yoe, doy, mp) ==
    CivilYMD(yoe + era * 400 + (IF mp >= 10 THEN 1 ELSE 0),
             IF mp < 10 THEN mp + 3 ELSE mp - 9,
             doy - ((153 * mp + 2) \div 5) + 1)

CivilOfDoy(era, yoe, doy) == CivilOfMonth(era, yoe, doy, (5 * doy + 2) \div 153)

CivilOfYoe(era, doe, yoe) ==
    CivilOfDoy(era, yoe, doe - (365 * yoe + (yoe \div 4) - (yoe \div 100)))

CivilOfDoe(era, doe) ==
    CivilOfYoe(era, doe,
               (doe - (doe \div 1460) + (doe \div 36524) - (doe \div 146096)) \div 365)

CivilOfDays(z) == CivilOfDoe(z \div 146097, z % 146097)

\* excelSerialToISO: the civil date `serial` days after 1899-12-30, which is
\* 25569 days before 1970-01-01, itself 719468 days after 0000-03-01
excelSerialToISO(serial) == CivilOfDays((serial - 25569) + 719468)

BrDateToISO(mt) ==
    IF ~mt.ok THEN <<>>
    ELSE (IF Len(mt.y) = 2 THEN <<"2", "0">> \o mt.y ELSE mt.y)
         \o <<"-">> \o Pad2(mt.m) \o <<"-">> \o Pad2(mt.d)

\* parseBrDate: dd/mm/yyyy to yyyy-mm-dd; <<>> stands for null
parseBrDate(s) == BrDateToISO(MatchBrDate(s))

\* isDateCell
isDateCell(c) ==
    IF IsNullish(c) THEN FALSE
    ELSE IF isExcelDateSerial(c) THEN TRUE
    ELSE MatchBrDate(Trim(CellStr(c))).ok

\* extractDate
extractDate(c) ==
    IF c.t = "num" /\ isExcelDateSerial(c) THEN excelSerialToISO(c.v \div 100)
    ELSE parseBrDate(Trim(CellStr(c)))

\* the collation rank of the characters of an ISO date
DateRank(c) == IF c = "-" THEN 0 ELSE 1 + DigitVal[c]

\* a.localeCompare(b) <= 0 on date strings
RECURSIVE DateLeq(_, _)
DateLeq(a, b) ==
    IF a = <<>> THEN TRUE
    ELSE IF b = <<>> THEN FALSE
    ELSE IF DateRank(a[1]) # DateRank(b[1]) THEN DateRank(a[1]) < DateRank(b[1])
    ELSE DateLeq(Tail(a), Tail(b))

-----------------------------------------------------------------------------
(* Row classification helpers of razao-importer.ts *)

\* classifyAccountByCode
classifyAccountByCode(code) ==
    IF code = <<>> THEN "unknown"
    ELSE CASE code[1] = "1" -> "asset"
           [] code[1] = "2" ->
                 IF \/ StartsWith(code, <<"2", ".", "3">>)
                    \/ StartsWith(code, <<"2", ".", "4">>)
                    \/ StartsWith(code, <<"2", ".", "5">>)
                 THEN "equity" ELSE "liability"
           [] code[1] = "3" -> "revenue"
           [] code[1] = "4" -> "expense"
           [] code[1] = "5" -> "expense"
           [] code[1] = "6" -> "revenue"
           [] OTHER -> "unknown"

\* getAccountLevel: code.split('.').length
getAccountLevel(code) == 1 + Cardinality({k \in 1..Len(code) : code[k] = "."})

\* str.replace(/\s*[DC]\s*$/i, '') on a trimmed string
StripDC(s) ==
    IF Len(s) >= 1 /\ LowerChar(s[Len(s)]) \in {"d", "c"}
    THEN Sub(s, 1, Len(s) - 1 - SpaceRunBack(s, Len(s) - 1))
    ELSE s

\* str.replace(/\./g, '')
RECURSIVE DropDots(_)
DropDots(s) ==
    IF s = <<>> THEN <<>>
    ELSE IF s[1] = "." THEN DropDots(Tail(s)) ELSE <<s[1]>> \o DropDots(Tail(s))

\* str.replace(',', '.'): the first comma only
FirstCommaToDot(s) ==
    [k \in 1..Len(s) |->
        IF s[k] = "," /\ \A j \in 1..(k - 1) : s[j] # "," THEN "." ELSE s[k]]

\* the steps of parseNumericCell on the trimmed text of a cell
NumericOfFloat(val) == IF val.nan THEN 0 ELSE val.v

NumericParen(s) ==
    NumericOfFloat(ParseFloat(IF StartsWith(s, <<"(">>) /\ EndsWith(s, <<")">>)
                              THEN <<"-">> \o Sub(s, 2, Len(s) - 1) ELSE s))

NumericComma(s) ==
    NumericParen(IF Includes(s, <<",">>) THEN FirstCommaToDot(DropDots(s)) ELSE s)

NumericOfText(s) == IF s = <<>> THEN 0 ELSE NumericComma(StripDC(s))

\* parseNumericCell without the removal of the trailing marker letter
parseNumericCell_KeepMarker(cell) ==
    IF IsNullish(cell) THEN 0
    ELSE IF cell.t = "num" THEN cell.v
    ELSE IF Trim(cell.s) = <<>> THEN 0
    ELSE NumericComma(Trim(cell.s))

\* parseNumericCell
parseNumericCell(cell) ==
    IF IsNullish(cell) THEN 0
    ELSE IF cell.t = "num" THEN cell.v
    ELSE NumericOfText(Trim(cell.s))

\* row.every((c) => c == null || String(c).trim() === ''): every skips holes
IsBlankRow(r) ==
    \A k \in 1..Len(r) : IsNullish(r[k]) \/ Trim(CellStr(r[k])) = <<>>

\* the text of a row: cells joined by a blank, lower-cased, trimmed
RowText(r) == Trim(Lower(JoinCells(r)))

PageHeaderText(text) ==
    IF text = <<>> THEN TRUE ELSE \E kw \in HEADER_KEYWORDS : Includes(text, kw)

\* isPageHeader
isPageHeader(r) == PageHeaderText(RowText(r))

\* text of isColumnHeaderRow: a hole of the row stays a hole, which some skips
ColumnHeaderText(r) ==
    [k \in 1..Len(r) |-> IF r[k].t = "hole" THEN <<"hole">>
                         ELSE Trim(Lower(CellStr(r[k])))]

ColumnHeaderCells(text) ==
    /\ \E k \in 1..Len(text) : text[k] = kwData
    /\ \E k \in 1..Len(text) : text[k] \in {kwDebitoA, kwDebito, kwCreditoA, kwCredito}

\* isColumnHeaderRow
isColumnHeaderRow(r) == ColumnHeaderCells(ColumnHeaderText(r))

\* detectAccountHeader returns [ok, code, name]; ok = FALSE stands for null
NoHeader == [ok |-> FALSE, code |-> <<>>, name |-> <<>>]

\* the loop over the cells of detectAccountHeader, from the zero-based index k
RECURSIVE HeaderScan(_, _)
HeaderCell(r, k, cell, str, mt) ==
    IF mt.ok THEN [ok |-> TRUE, code |-> mt.code, name |-> Trim(mt.name)]
    ELSE IF ACCOUNT_CODE_RE(str) /\ ~isExcelDateSerial(cell)
         THEN [ok |-> TRUE, code |-> str,
               name |-> IF Truthy(At(r, k + 1)) THEN Trim(CellStr(At(r, k + 1))) ELSE str]
    ELSE HeaderScan(r, k + 1)

HeaderText(r, k, cell, str) == HeaderCell(r, k, cell, str, MatchAccountHeader(str))

HeaderScan(r, k) ==
    IF k >= Len(r) THEN NoHeader
    ELSE IF IsNullish(At(r, k)) THEN HeaderScan(r, k + 1)
    ELSE HeaderText(r, k, At(r, k), Trim(CellStr(At(r, k))))

\* the Dominio format of detectAccountHeader, code and name being the trimmed
\* texts of row[2] and of row[5] ?? row[3]
HeaderDominio(r, code, name) ==
    IF /\ Truthy(At(r, 0))
       /\ Lower(Trim(CellStr(At(r, 0)))) = kwConta
       /\ code # <<>> /\ ACCOUNT_CODE_RE(code)
    THEN [ok |-> TRUE, code |-> code, name |-> IF name # <<>> THEN name ELSE code]
    ELSE HeaderScan(r, 0)

\* detectAccountHeader
detectAccountHeader(r) ==
    HeaderDominio(r, Trim(CellStr(At(r, 2))),
                  Trim(CellStr(IF ~IsNullish(At(r, 5)) THEN At(r, 5) ELSE At(r, 3))))

\* the index in SALDO_KEYWORDS, from k on, of the first keyword text includes;
\* 0 stands for null
RECURSIVE SaldoScan(_, _)
SaldoScan(text, k) ==
    IF k > Len(SALDO_KEYWORDS) THEN 0
    ELSE IF Includes(text, SALDO_KEYWORDS[k]) THEN k
    ELSE SaldoScan(text, k + 1)

\* isSaldoOrTotalLine
isSaldoOrTotalLine(r) == SaldoScan(RowText(r), 1)

\* the fallback loop of extractBalanceFromRow, from the zero-based index c down
RECURSIVE LastNumeric(_, _)
LastNumericAt(r, c, val) == IF val # 0 THEN val ELSE LastNumeric(r, c - 1)

LastNumeric(r, c) ==
    IF c < 0 THEN 0 ELSE LastNumericAt(r, c, parseNumericCell(At(r, c)))

BalanceFrom(r, cfg, ex, bal) ==
    IF cfg.balanceExCol >= 0 /\ ex # 0 THEN ex
    ELSE IF cfg.balanceCol >= 0 /\ bal # 0 THEN bal
    ELSE LastNumeric(r, Len(r) - 1)

\* extractBalanceFromRow
extractBalanceFromRow(r, cfg) ==
    BalanceFrom(r, cfg, parseNumericCell(At(r, cfg.balanceExCol)),
                parseNumericCell(At(r, cfg.balanceCol)))

-----------------------------------------------------------------------------
(* parseLedger: accounts, finalization, deduplication *)

\* entries.reduce((sum, e) => sum + e[f], 0) and like sums over a sequence
RECURSIVE SumField(_, _)
SumField(seq, f) == IF seq = <<>> THEN 0 ELSE seq[1][f] + SumField(Tail(seq), f)

\* the account record parseLedger creates for a header; fullLabel is
\* `${code} - ${name}`, a function of code and name, and is not stored
NewAccount(code, name) ==
    [code |-> code, name |-> name, level |-> getAccountLevel(code), entries |-> <<>>,
     openingBalance |-> 0, closingBalance |-> 0, totalDebits |-> 0, totalCredits |-> 0,
     accountType |-> classifyAccountByCode(code)]

\* the first statement of finalizeAccount: totals from the entries when both
\* totals are 0
FinalizeTotals(account) ==
    IF account.totalDebits = 0 /\ account.totalCredits = 0
    THEN [account EXCEPT !.totalDebits = SumField(account.entries, "debit"),
                         !.totalCredits = SumField(account.entries, "credit")]
    ELSE account

\* the second statement of finalizeAccount: the closing balance from the last
\* entry when it is 0
FinalizeClosing(account) ==
    IF /\ account.closingBalance = 0
       /\ Len(account.entries) > 0
       /\ account.entries[Len(account.entries)].balance # 0
    THEN [account EXCEPT !.closingBalance = account.entries[Len(account.entries)].balance]
    ELSE account

\* the finalization deriving the totals only
finalizeAccount_TotalsOnly(account) == FinalizeTotals(account)

\* finalizeAccount
finalizeAccount(account) == FinalizeClosing(FinalizeTotals(account))

\* Array.prototype.sort with (a, b) => a.date.localeCompare(b.date): stable
RECURSIVE InsertByDate(_, _)
InsertByDate(sorted, e) ==
    IF sorted = <<>> THEN <<e>>
    ELSE IF DateLeq(sorted[Len(sorted)].date, e.date) THEN Append(sorted, e)
    ELSE Append(InsertByDate(Sub(sorted, 1, Len(sorted) - 1), e), sorted[Len(sorted)])

RECURSIVE SortByDate(_)
SortByDate(es) ==
    IF es = <<>> THEN <<>>
    ELSE InsertByDate(SortByDate(Sub(es, 1, Len(es) - 1)), es[Len(es)])

\* a merge that keeps the totals of the later occurrence instead of adding them
MergeInto_LastTotals(existing, acc) ==
    [existing EXCEPT
        !.entries        = existing.entries \o acc.entries,
        !.totalDebits    = acc.totalDebits,
        !.totalCredits   = acc.totalCredits,
        !.closingBalance = IF acc.closingBalance # 0 THEN acc.closingBalance ELSE @,
        !.openingBalance = IF @ = 0 /\ acc.openingBalance # 0 THEN acc.openingBalance ELSE @,
        !.name           = IF Len(acc.name) > Len(@) THEN acc.name ELSE @]

\* the body of the first loop of deduplicateAccounts when the Map holds acc.code
MergeInto(existing, acc) ==
    [existing EXCEPT
        !.entries        = existing.entries \o acc.entries,
        !.totalDebits    = existing.totalDebits + acc.totalDebits,
        !.totalCredits   = existing.totalCredits + acc.totalCredits,
        !.closingBalance = IF acc.closingBalance # 0 THEN acc.closingBalance ELSE @,
        !.openingBalance = IF @ = 0 /\ acc.openingBalance # 0 THEN acc.openingBalance ELSE @,
        !.name           = IF Len(acc.name) > Len(@) THEN acc.name ELSE @]

\* the first loop of deduplicateAccounts; the Map is a sequence in insertion order
RECURSIVE DedupFold(_, _)
DedupFold(map, accs) ==
    IF accs = <<>> THEN map
    ELSE IF \E k \in 1..Len(map) : map[k].code = accs[1].code
         THEN DedupFold([k \in 1..Len(map) |->
                            IF map[k].code = accs[1].code
                            THEN MergeInto(map[k], accs[1]) ELSE map[k]],
                        Tail(accs))
         ELSE DedupFold(Append(map, accs[1]), Tail(accs))

\* a second loop that leaves the entries in encounter order
SortEntries_Unsorted(map) == map

\* the second loop of deduplicateAccounts
SortEntries(map) ==
    [k \in 1..Len(map) |-> [map[k] EXCEPT !.entries = SortByDate(map[k].entries)]]

\* deduplicateAccounts
deduplicateAccounts(accs) == SortEntries(DedupFold(<<>>, accs))

\* the LedgerEntry parseLedger builds from a transaction row
MakeEntry(r, cfg) ==
    [date        |-> extractDate(At(r, cfg.dateCol)),
     description |-> IF cfg.descriptionCol >= 0
                     THEN Trim(CellStr(At(r, cfg.descriptionCol))) ELSE <<>>,
     debit       |-> IF cfg.debitCol >= 0 THEN parseNumericCell(At(r, cfg.debitCol)) ELSE 0,
     credit      |-> IF cfg.creditCol >= 0 THEN parseNumericCell(At(r, cfg.creditCol)) ELSE 0,
     balance     |-> IF cfg.balanceExCol >= 0 THEN parseNumericCell(At(r, cfg.balanceExCol))
                     ELSE IF cfg.balanceCol >= 0 THEN parseNumericCell(At(r, cfg.balanceCol))
                     ELSE 0]

\* whether the date column of a row holds a date
IsTransactionRow(r, cfg) ==
    cfg.dateCol >= 0 /\ ~IsNullish(At(r, cfg.dateCol)) /\ isDateCell(At(r, cfg.dateCol))

\* everything one iteration of the loop of parseLedger computes from the row
\* alone: the tests it makes and the values it stores
RowFacts(r, cfg) ==
    [blank         |-> IsBlankRow(r),
     pageHeader    |-> isPageHeader(r),
     columnHeader  |-> isColumnHeaderRow(r),
     accountHeader |-> detectAccountHeader(r),
     saldoType     |-> isSaldoOrTotalLine(r),
     balance       |-> extractBalanceFromRow(r, cfg),
     debit         |-> IF cfg.debitCol >= 0 THEN parseNumericCell(At(r, cfg.debitCol)) ELSE 0,
     credit        |-> IF cfg.creditCol >= 0 THEN parseNumericCell(At(r, cfg.creditCol)) ELSE 0,
     transaction   |-> IsTransactionRow(r, cfg),
     entry         |-> MakeEntry(r, cfg)]

\* the balance a saldo row sets: opening for 'anterior' / 'inicial', else
\* closing for 'final'
SaldoBalance(acc, saldoType, f) ==
    IF Includes(saldoType, kwAnterior) \/ Includes(saldoType, kwInicial)
    THEN [acc EXCEPT !.openingBalance = f.balance]
    ELSE IF Includes(saldoType, kwFinal)
    THEN [acc EXCEPT !.closingBalance = f.balance]
    ELSE acc

\* the totals a totals row sets: each one only when its cell is above 0
SaldoTotals(acc, saldoType, f) ==
    IF Includes(saldoType, kwTotais) \/ Includes(saldoType, kwTotal)
    THEN [acc EXCEPT !.totalDebits  = IF f.debit > 0 THEN f.debit ELSE @,
                     !.totalCredits = IF f.credit > 0 THEN f.credit ELSE @]
    ELSE acc

\* the saldo / totals branch of parseLedger on the current account, f being
\* the facts of the row
ApplySaldo(acc, f) ==
    SaldoTotals(SaldoBalance(acc, SALDO_KEYWORDS[f.saldoType], f),
                SALDO_KEYWORDS[f.saldoType], f)

\* the loop body with the account-header test ahead of the page-header and
\* column-header tests
ProcessRow_HeaderFirst(st, f) ==
    IF f.blank THEN st
    ELSE IF f.accountHeader.ok
         THEN [cur |-> <<NewAccount(f.accountHeader.code, f.accountHeader.name)>>,
               accounts |-> IF st.cur # <<>>
                            THEN Append(st.accounts, finalizeAccount(st.cur[1]))
                            ELSE st.accounts]
    ELSE IF f.pageHeader THEN st
    ELSE IF f.columnHeader THEN st
    ELSE IF st.cur = <<>> THEN st
    ELSE IF f.saldoType # 0
         THEN [st EXCEPT !.cur = <<ApplySaldo(st.cur[1], f)>>]
    ELSE IF f.transaction
         THEN [st EXCEPT !.cur = <<[st.cur[1] EXCEPT !.entries = Append(@, f.entry)]>>]
    ELSE st

\* one iteration of the loop of parseLedger on the state st = [cur, accounts],
\* f being the facts of the row
ProcessRow(st, f) ==
    IF f.blank THEN st
    ELSE IF f.pageHeader THEN st
    ELSE IF f.columnHeader THEN st
    ELSE IF f.accountHeader.ok
         THEN [cur |-> <<NewAccount(f.accountHeader.code, f.accountHeader.name)>>,
               accounts |-> IF st.cur # <<>>
                            THEN Append(st.accounts, finalizeAccount(st.cur[1]))
                            ELSE st.accounts]
    ELSE IF st.cur = <<>> THEN st
    ELSE IF f.saldoType # 0
         THEN [st EXCEPT !.cur = <<ApplySaldo(st.cur[1], f)>>]
    ELSE IF f.transaction
         THEN [st EXCEPT !.cur = <<[st.cur[1] EXCEPT !.entries = Append(@, f.entry)]>>]
    ELSE st

\* the end of parseLedger leaving out the account in progress
FinishLedger_DropOpen(st) == deduplicateAccounts(st.accounts)

\* the end of parseLedger: the last account is finalized and the accounts are
\* deduplicated
FinishLedger(st) ==
    deduplicateAccounts(IF st.cur # <<>>
                        THEN Append(st.accounts, finalizeAccount(st.cur[1]))
                        ELSE st.accounts)

\* the loop of parseLedger over a whole grid
RECURSIVE ParseFrom(_, _, _)
ParseFrom(st, grid, cfg) ==
    IF grid = <<>> THEN st
    ELSE ParseFrom(ProcessRow(st, RowFacts(grid[1], cfg)), Tail(grid), cfg)

\* parseLedger: the accounts of the ParsedLedger
parseLedger(grid, cfg) ==
    FinishLedger(ParseFrom([cur |-> <<>>, accounts |-> <<>>], grid, cfg))

(* Specification SpecParse: the row loop of parseLedger, row by row *)

\* the largest number of rows of a grid parseLedger reads
MaxRows == 3

\* the column layout date, description, debit, credit, balance
LedgerConfig ==
    [dateCol |-> 0, descriptionCol |-> 1, debitCol |-> 2, creditCol |-> 3,
     balanceCol |-> 4, balanceExCol |-> -1]

\* the rows a grid is made of: every class of row, rows that match several
\* classes at once, and amounts of every shape parseNumericCell reads
RowPool == {
    <<NullCell, Str(<<" "," ">>), Hole>>,
    <<Str(<<"L","i","v","r","o"," ","R","a","z","ã","o">>)>>,
    <<Str(<<"0","5","/","0","1","/","2","0","2","4">>), Str(<<"2",".","1",".","0","1"," ","-"," ","P","a","g","i","n","a"," ","S","a","l","d","o"," ","f","i","n","a","l">>), Num(70000), Num(90000), Num(110000)>>,
    <<Str(<<"D","a","t","a">>), Str(<<"H","i","s","t","ó","r","i","c","o">>), Str(<<"D","é","b","i","t","o">>), Str(<<"C","r","é","d","i","t","o">>), Str(<<"S","a","l","d","o">>)>>,
    <<Str(<<"D","a","t","a">>), Str(<<"1",".","1",".","0","1">>), Str(<<"D","e","b","i","t","o">>), Num(50000), Str(<<"S","a","l","d","o"," ","f","i","n","a","l">>)>>,
    <<Str(<<"3",".","1",".","0","1">>), Str(<<"R","e","c","e","i","t","a"," ","d","e"," ","V","e","n","d","a","s">>)>>,
    <<Str(<<"C","o","n","t","a",":"," ","1",".","1",".","0","1"," ","-"," ","C","a","i","x","a">>)>>,
    <<Str(<<"C","o","n","t","a",":">>), Num(700), Str(<<"1",".","1",".","0","1">>), NullCell, NullCell, Str(<<"C","a","i","x","a"," ","G","e","r","a","l">>)>>,
    <<Str(<<"0","5","/","0","1","/","2","0","2","4">>), Str(<<"2",".","1",".","0","1">>), Str(<<"S","a","l","d","o"," ","f","i","n","a","l">>), Num(30000), Num(40000)>>,
    <<NullCell, Str(<<"S","a","l","d","o"," ","a","n","t","e","r","i","o","r">>), NullCell, NullCell, Num(100000)>>,
    <<NullCell, Str(<<"S","a","l","d","o"," ","f","i","n","a","l">>), NullCell, NullCell, Num(150000)>>,
    <<NullCell, Str(<<"T","o","t","a","i","s"," ","d","o"," ","p","e","r","í","o","d","o">>), Num(0), Num(0), NullCell>>,
    <<NullCell, Str(<<"T","o","t","a","i","s"," ","d","o"," ","p","e","r","í","o","d","o">>), Num(50000), Num(0), NullCell>>,
    <<Str(<<"3","1","/","0","1","/","2","0","2","4">>), Str(<<"T","o","t","a","l"," ","d","o"," ","m","ê","s">>), Num(30000), Num(60000), Num(5000)>>,
    <<Str(<<"0","5","/","0","1","/","2","0","2","4">>), Str(<<"a">>), Num(10000), Num(0), Num(10000)>>,
    <<Num(4530000), Str(<<"b">>), NullCell, Num(20000), Num(0)>>,
    <<Str(<<"1","5","/","0","1","/","2","0","2","4">>), Str(<<"c">>), Num(-50000), Str(<<"(","5","0","0",")">>), Num(-2500)>>,
    <<Str(<<"2","0","/","0","1","/","2","0","2","4">>), Str(<<"d">>), Str(<<"1",".","2","3","4",",","5","6">>), Num(0), Num(123456)>>,
    <<Str(<<"x","y","z">>), Num(100)>>}

\* the facts of the rows of the pool under LedgerConfig
Facts == [r \in RowPool |-> RowFacts(r, LedgerConfig)]

\* the state the loop body reads and writes
LoopState == [cur |-> cur, accounts |-> accounts]

\* the iteration i = nRead of the loop of parseLedger on the row r, st being
\* the state the loop body leaves
ReadRowTo(r, st) ==
    /\ op = "parse" /\ pc = "scan" /\ nRead < MaxRows
    /\ cur' = st.cur /\ accounts' = st.accounts
    /\ curRow' = r
    /\ nRead' = nRead + 1
    /\ UNCHANGED <<op, pc, rows, config, out, mappings, stmt, data, biff, env>>

ReadRow(r) == ReadRowTo(r, ProcessRow(LoopState, Facts[r]))

\* a blank row
ParseBlank == \E r \in RowPool : Facts[r].blank /\ ReadRow(r)

\* a page or report header
ParsePageHeader ==
    \E r \in RowPool : ~Facts[r].blank /\ Facts[r].pageHeader /\ ReadRow(r)

\* the row of column titles
ParseColumnHeader ==
    \E r \in RowPool :
        ~Facts[r].blank /\ ~Facts[r].pageHeader /\ Facts[r].columnHeader /\ ReadRow(r)

\* whether the loop body gets past the blank and header tests on the row r
PastHeaders(r) == ~Facts[r].blank /\ ~Facts[r].pageHeader /\ ~Facts[r].columnHeader

\* an account header
ParseAccountHeader ==
    \E r \in RowPool : PastHeaders(r) /\ Facts[r].accountHeader.ok /\ ReadRow(r)

\* no account is open
ParseNoAccount ==
    \E r \in RowPool :
        PastHeaders(r) /\ ~Facts[r].accountHeader.ok /\ cur = <<>> /\ ReadRow(r)

\* a saldo or totals row
ParseSaldo ==
    \E r \in RowPool :
        /\ PastHeaders(r) /\ ~Facts[r].accountHeader.ok /\ cur # <<>>
        /\ Facts[r].saldoType # 0
        /\ ReadRow(r)

\* a transaction row
ParseTransaction ==
    \E r \in RowPool :
        /\ PastHeaders(r) /\ ~Facts[r].accountHeader.ok /\ cur # <<>>
        /\ Facts[r].saldoType = 0 /\ Facts[r].transaction
        /\ ReadRow(r)

\* any other row while an account is open: the loop body does nothing
ParseOther ==
    \E r \in RowPool :
        /\ PastHeaders(r) /\ ~Facts[r].accountHeader.ok /\ cur # <<>>
        /\ Facts[r].saldoType = 0 /\ ~Facts[r].transaction
        /\ ReadRow(r)

\* the end of the grid
ParseEnd ==
    /\ op = "parse" /\ pc = "scan"
    /\ out' = FinishLedger(LoopState)
    /\ pc' = "done"
    /\ UNCHANGED <<op, rows, curRow, nRead, config, cur, accounts, mappings, stmt,
                   data, biff, env>>

InitParse ==
    /\ op = "parse" /\ pc = "scan"
    /\ rows = <<>> /\ curRow = <<>> /\ nRead = 0
    /\ config = LedgerConfig
    /\ cur = <<>> /\ accounts = <<>> /\ out = <<>>
    /\ mappings = <<>> /\ stmt = <<>>
    /\ data = <<>> /\ biff = <<>> /\ env = <<>>

NextParse ==
    \/ ParseBlank
    \/ ParsePageHeader
    \/ ParseColumnHeader
    \/ ParseAccountHeader
    \/ ParseNoAccount
    \/ ParseSaldo
    \/ ParseTransaction
    \/ ParseOther
    \/ ParseEnd

SpecParse == InitParse /\ [][NextParse]_vars

-----------------------------------------------------------------------------
(* Properties of the row loop of parseLedger, under SpecParse *)

\* the row the loop has just read, and its facts
HasRow == curRow \in RowPool

\* whether the row just read reached the saldo / totals branch as a totals row
TotalsRowApplied ==
    /\ op = "parse" /\ pc = "scan" /\ HasRow /\ cur # <<>>
    /\ PastHeaders(curRow) /\ ~Facts[curRow].accountHeader.ok
    /\ Facts[curRow].saldoType # 0
    /\ \/ Includes(SALDO_KEYWORDS[Facts[curRow].saldoType], kwTotais)
       \/ Includes(SALDO_KEYWORDS[Facts[curRow].saldoType], kwTotal)

\* C4: explicit totals take precedence over derived ones: when the source
\* supplies a totals row for the open account, finalizeAccount leaves the
\* account's totalDebits and totalCredits as they stand after that row, and
\* they are the row's values, whatever the row states and whatever the
\* entries sum to.
C4_ExplicitTotalsKept ==
    TotalsRowApplied =>
        /\ finalizeAccount(cur[1]).totalDebits = cur[1].totalDebits
        /\ finalizeAccount(cur[1]).totalCredits = cur[1].totalCredits

\* a totals row stating 0 / 0 closes an account whose entries sum to more
C4_ZeroTotalsRowReplaced ==
    /\ TotalsRowApplied
    /\ Facts[curRow].debit = 0 /\ Facts[curRow].credit = 0
    /\ SumField(cur[1].entries, "debit") + SumField(cur[1].entries, "credit") # 0
    /\ finalizeAccount(cur[1]).totalDebits = SumField(cur[1].entries, "debit")

\* every entry of the accounts of a sequence has debit >= 0 and credit >= 0
EntriesNonNegative(accs) ==
    \A k \in 1..Len(accs) : \A j \in 1..Len(accs[k].entries) :
        accs[k].entries[j].debit >= 0 /\ accs[k].entries[j].credit >= 0

\* C5: every LedgerEntry parseLedger produces has debit >= 0 and credit >= 0,
\* for every content of the debit and credit cells, negative numbers and
\* parenthesized values included.
C5_EntriesNonNegative ==
    /\ EntriesNonNegative(cur)
    /\ EntriesNonNegative(accounts)
    /\ pc = "done" => EntriesNonNegative(out)

\* a ledger returned by parseLedger holds an entry with a negative debit
C5_NegativeEntryReturned ==
    /\ pc = "done"
    /\ \E k \in 1..Len(out) : \E j \in 1..Len(out[k].entries) :
           out[k].entries[j].debit < 0

\* the entries of the open account, <<>> when none is open
OpenEntries(c) == IF c = <<>> THEN <<>> ELSE c[1].entries

\* C6: row classification is first-match-wins in the order blank, page
\* header, column header, account header, saldo / total, transaction.  A row
\* that is blank, matches a page-header keyword or the column-header pattern
\* changes neither the open account nor the emitted accounts, whatever else it
\* holds; an account-header row opens an account with no entry, zero balances
\* and zero totals and emits the previous one with its entries and opening
\* balance as they were; a saldo / total row adds no entry; and only a row
\* none of these classes matches adds an entry.
C6_Step ==
    (op = "parse" /\ nRead' = nRead + 1) =>
        /\ (Facts[curRow'].blank \/ Facts[curRow'].pageHeader \/ Facts[curRow'].columnHeader)
              => (cur' = cur /\ accounts' = accounts)
        /\ (PastHeaders(curRow') /\ Facts[curRow'].accountHeader.ok)
              => /\ cur' # <<>>
                 /\ cur'[1].code = Facts[curRow'].accountHeader.code
                 /\ cur'[1].entries = <<>>
                 /\ cur'[1].openingBalance = 0 /\ cur'[1].closingBalance = 0
                 /\ cur'[1].totalDebits = 0 /\ cur'[1].totalCredits = 0
                 /\ Len(accounts') = Len(accounts) + Len(cur)
                 /\ SubSeq(accounts', 1, Len(accounts)) = accounts
                 /\ cur # <<>> =>
                       /\ accounts'[Len(accounts')].entries = cur[1].entries
                       /\ accounts'[Len(accounts')].openingBalance = cur[1].openingBalance
        /\ (PastHeaders(curRow') /\ ~Facts[curRow'].accountHeader.ok)
              => /\ accounts' = accounts
                 /\ (cur = <<>>) = (cur' = <<>>)
                 /\ Facts[curRow'].saldoType # 0 => OpenEntries(cur') = OpenEntries(cur)
                 /\ OpenEntries(cur') # OpenEntries(cur) =>
                       /\ Facts[curRow'].transaction
                       /\ OpenEntries(cur') = Append(OpenEntries(cur), Facts[curRow'].entry)
                       /\ cur' = <<[cur[1] EXCEPT !.entries = OpenEntries(cur')]>>

C6_FirstMatchWins == [][C6_Step]_vars

\* an account is open and the row just read matches a page-header keyword
\* while holding an account code, a date in the date column and amounts
C6_PageHeaderWithCodeAndDate ==
    /\ HasRow /\ cur # <<>> /\ nRead >= 2
    /\ ~Facts[curRow].blank /\ Facts[curRow].pageHeader
    /\ Facts[curRow].accountHeader.ok /\ Facts[curRow].transaction
    /\ Facts[curRow].saldoType # 0


-----------------------------------------------------------------------------
(* razao-aggregator.ts: automatic mapping and the income statement *)

\* the keys of DRE_TARGET_FIELDS and of BALANCE_TARGET_FIELDS
DRE_TARGET_FIELDS ==
    {"grossRevenue", "deductions", "cogs", "sgaExpenses", "depreciation",
     "otherOperating", "financialResult", "incomeTax"}

BALANCE_TARGET_FIELDS ==
    {"operatingCash", "nonOperatingCash", "accountsReceivable", "inventory",
     "otherCurrentAssets", "ppe", "intangibles", "otherNonCurrentAssets",
     "accountsPayable", "otherOperatingLiabilities", "shortTermDebt", "longTermDebt",
     "otherNonCurrentLiabilities", "equity"}

\* nameLower.includes(k) for some k of ks
HasAny(nameLower, ks) == \E k \in ks : Includes(nameLower, k)

\* the rule chain of autoMapAccounts: the target field of the first rule the
\* code and the lower-cased name satisfy; "" when none does
TargetFieldOf(code, nameLower) ==
    IF \/ StartsWith(code, <<"3",".","1">>)
       \/ HasAny(nameLower, {<<"r","e","c","e","i","t","a"," ","b","r","u","t","a">>, <<"r","e","c","e","i","t","a"," ","d","e"," ","v","e","n","d","a">>})
    THEN "grossRevenue"
    ELSE IF /\ StartsWith(code, <<"3",".">>)
            /\ HasAny(nameLower, {<<"d","e","d","u","ç">>, <<"d","e","d","u","c">>, <<"i","m","p","o","s","t","o"," ","s","o","b","r","e">>, <<"i","c","m","s">>, <<"p","i","s">>,
                                  <<"c","o","f","i","n","s">>, <<"i","s","s">>})
    THEN "deductions"
    ELSE IF StartsWith(code, <<"4",".","1">>) \/ HasAny(nameLower, {<<"c","u","s","t","o">>, <<"c","m","v">>, <<"c","p","v">>})
    THEN "cogs"
    ELSE IF \/ StartsWith(code, <<"4",".","2">>)
            \/ /\ StartsWith(code, <<"4",".">>)
               /\ Includes(nameLower, <<"d","e","s","p","e","s","a">>)
               /\ HasAny(nameLower, {<<"a","d","m","i","n">>, <<"v","e","n","d","a">>, <<"g","e","r","a">>})
    THEN "sgaExpenses"
    ELSE IF HasAny(nameLower, {<<"d","e","p","r","e","c","i","a">>, <<"a","m","o","r","t","i","z","a">>})
    THEN "depreciation"
    ELSE IF HasAny(nameLower, {<<"f","i","n","a","n","c","e","i","r","a">>, <<"f","i","n","a","n","c","e","i","r","o">>, <<"j","u","r","o","s">>})
    THEN "financialResult"
    ELSE IF HasAny(nameLower, {<<"i","m","p","o","s","t","o"," ","d","e"," ","r","e","n","d","a">>, <<"i","r"," ">>, <<"c","s","l","l">>, <<"c","o","n","t","r","i","b","u","i","ç","ã","o"," ","s","o","c","i","a","l">>})
    THEN "incomeTax"
    ELSE IF \/ StartsWith(code, <<"1",".","1",".","0","1">>)
            \/ /\ StartsWith(code, <<"1",".","1">>)
               /\ HasAny(nameLower, {<<"c","a","i","x","a">>, <<"b","a","n","c","o">>, <<"d","i","s","p","o","n","i","b","i","l","i","d","a","d","e">>})
    THEN "operatingCash"
    ELSE IF StartsWith(code, <<"1",".","1">>) /\ HasAny(nameLower, {<<"a","p","l","i","c","a","ç">>, <<"a","p","l","i","c","a","c">>})
    THEN "nonOperatingCash"
    ELSE IF /\ StartsWith(code, <<"1",".","1">>)
            /\ HasAny(nameLower, {<<"r","e","c","e","b","e","r">>, <<"c","l","i","e","n","t","e">>, <<"d","u","p","l","i","c","a","t","a">>})
    THEN "accountsReceivable"
    ELSE IF /\ StartsWith(code, <<"1",".","1">>)
            /\ HasAny(nameLower, {<<"e","s","t","o","q","u","e">>, <<"m","e","r","c","a","d","o","r","i","a">>, <<"p","r","o","d","u","t","o">>})
    THEN "inventory"
    ELSE IF /\ StartsWith(code, <<"1",".","2">>)
            /\ HasAny(nameLower, {<<"i","m","o","b","i","l","i","z","a","d","o">>, <<"m","á","q","u","i","n","a">>, <<"m","a","q","u","i","n","a">>, <<"e","q","u","i","p">>,
                                  <<"v","e","í","c","u","l","o">>, <<"v","e","i","c","u","l","o">>})
    THEN "ppe"
    ELSE IF /\ StartsWith(code, <<"1",".","2">>)
            /\ HasAny(nameLower, {<<"i","n","t","a","n","g","í","v","e","l">>, <<"i","n","t","a","n","g","i","v","e","l">>, <<"s","o","f","t","w","a","r","e">>, <<"m","a","r","c","a">>})
    THEN "intangibles"
    ELSE IF StartsWith(code, <<"1",".","1">>) THEN "otherCurrentAssets"
    ELSE IF StartsWith(code, <<"1",".","2">>) THEN "otherNonCurrentAssets"
    ELSE IF StartsWith(code, <<"2",".","1">>) /\ HasAny(nameLower, {<<"f","o","r","n","e","c","e","d","o","r">>, <<"p","a","g","a","r">>})
    THEN "accountsPayable"
    ELSE IF /\ StartsWith(code, <<"2",".","1">>)
            /\ HasAny(nameLower, {<<"e","m","p","r","é","s","t","i","m","o">>, <<"e","m","p","r","e","s","t","i","m","o">>, <<"f","i","n","a","n","c","i","a","m","e","n","t","o">>})
    THEN "shortTermDebt"
    ELSE IF /\ StartsWith(code, <<"2",".","2">>)
            /\ HasAny(nameLower, {<<"e","m","p","r","é","s","t","i","m","o">>, <<"e","m","p","r","e","s","t","i","m","o">>, <<"f","i","n","a","n","c","i","a","m","e","n","t","o">>,
                                  <<"d","e","b","ê","n","t","u","r","e">>, <<"d","e","b","e","n","t","u","r","e">>})
    THEN "longTermDebt"
    ELSE IF StartsWith(code, <<"2",".","1">>) THEN "otherOperatingLiabilities"
    ELSE IF StartsWith(code, <<"2",".","2">>) THEN "otherNonCurrentLiabilities"
    ELSE IF \/ StartsWith(code, <<"2",".","3">>)
            \/ StartsWith(code, <<"2",".","4">>)
            \/ /\ StartsWith(code, <<"2",".">>)
               /\ HasAny(nameLower, {<<"p","a","t","r","i","m","ô","n","i","o">>, <<"p","a","t","r","i","m","o","n","i","o">>, <<"c","a","p","i","t","a","l"," ","s","o","c","i","a","l">>,
                                     <<"r","e","s","e","r","v","a">>, <<"l","u","c","r","o","s"," ","a","c","u","m","u","l","a","d","o","s">>})
    THEN "equity"
    ELSE ""

\* the statement the rule chain sets together with a target field
TargetStatementOf(targetField) ==
    IF targetField = "" THEN "ignore"
    ELSE IF targetField \in DRE_TARGET_FIELDS THEN "income_statement"
    ELSE "balance_sheet"

\* the LedgerMapping autoMapAccounts pushes for an account
MappingOf(acc, targetField) ==
    [accountCode     |-> acc.code,
     accountName     |-> acc.name,
     targetField     |-> targetField,
     targetStatement |-> TargetStatementOf(targetField),
     sign            |-> 1,
     autoDetected    |-> targetField # ""]

\* the auto-mapper leaving out the accounts that match no rule
autoMapAccounts_SkipIgnored(accs) ==
    SelectSeq([k \in 1..Len(accs) |->
                  MappingOf(accs[k], TargetFieldOf(accs[k].code, Lower(accs[k].name)))],
              LAMBDA m : m.targetField # "")

\* autoMapAccounts
autoMapAccounts(accs) ==
    [k \in 1..Len(accs) |-> MappingOf(accs[k], TargetFieldOf(accs[k].code, Lower(accs[k].name)))]

\* the lookup falling back to the first account when no account has the code
FindAccount_FirstWhenAbsent(accs, code, k) ==
    IF \E i \in k..Len(accs) : accs[i].code = code
    THEN CHOOSE i \in k..Len(accs) :
             accs[i].code = code /\ \A j \in k..(i - 1) : accs[j].code # code
    ELSE IF accs = <<>> THEN 0 ELSE 1

\* ledger.accounts.find((a) => a.code === code): the index of the first
\* account with the code, from k on; 0 stands for undefined
RECURSIVE FindAccount(_, _, _)
FindAccount(accs, code, k) ==
    IF k > Len(accs) THEN 0
    ELSE IF accs[k].code = code THEN k
    ELSE FindAccount(accs, code, k + 1)

\* the net movement with every account taken as of debit nature
NetMovement_DebitNature(account) == account.totalDebits - account.totalCredits

\* the net movement of an account: credits less debits for revenue, debits
\* less credits otherwise
NetMovement(account) ==
    IF account.accountType = "revenue"
    THEN account.totalCredits - account.totalDebits
    ELSE account.totalDebits - account.totalCredits

\* the accumulators of aggregateToIncomeStatement
ZeroValues == [f \in DRE_TARGET_FIELDS |-> 0]

\* values[mapping.targetField] += value * mapping.sign; a field outside the
\* accumulators is stored under a key the statement never reads
AddValue(values, mapping, account) ==
    IF mapping.targetField \in DOMAIN values
    THEN [values EXCEPT ![mapping.targetField] = @ + NetMovement(account) * mapping.sign]
    ELSE values

\* the loop of aggregateToIncomeStatement over the mappings
RECURSIVE AccumulateIncome(_, _, _)
AccumulateAt(values, accs, maps, at) ==
    IF at = 0 THEN AccumulateIncome(values, accs, Tail(maps))
    ELSE AccumulateIncome(AddValue(values, maps[1], accs[at]), accs, Tail(maps))

AccumulateIncome(values, accs, maps) ==
    IF maps = <<>> THEN values
    ELSE IF maps[1].targetStatement # "income_statement" \/ maps[1].targetField = ""
    THEN AccumulateIncome(values, accs, Tail(maps))
    ELSE AccumulateAt(values, accs, maps, FindAccount(accs, maps[1].accountCode, 1))

\* the assembly with otherOperating taken as an expense
StatementOf_OtherAsExpense(v) ==
    [grossRevenue    |-> v.grossRevenue,
     deductions      |-> v.deductions,
     netRevenue      |-> v.grossRevenue - v.deductions,
     cogs            |-> v.cogs,
     grossProfit     |-> v.grossRevenue - v.deductions - v.cogs,
     sgaExpenses     |-> v.sgaExpenses,
     depreciation    |-> v.depreciation,
     otherOperating  |-> v.otherOperating,
     ebit            |-> v.grossRevenue - v.deductions - v.cogs
                         - v.sgaExpenses - v.depreciation - v.otherOperating,
     financialResult |-> v.financialResult,
     ebt             |-> v.grossRevenue - v.deductions - v.cogs
                         - v.sgaExpenses - v.depreciation - v.otherOperating
                         + v.financialResult,
     incomeTax       |-> v.incomeTax,
     netIncome       |-> v.grossRevenue - v.deductions - v.cogs
                         - v.sgaExpenses - v.depreciation - v.otherOperating
                         + v.financialResult - v.incomeTax]

\* the IncomeStatement assembled from the accumulators
StatementOf(v) ==
    [grossRevenue    |-> v.grossRevenue,
     deductions      |-> v.deductions,
     netRevenue      |-> v.grossRevenue - v.deductions,
     cogs            |-> v.cogs,
     grossProfit     |-> v.grossRevenue - v.deductions - v.cogs,
     sgaExpenses     |-> v.sgaExpenses,
     depreciation    |-> v.depreciation,
     otherOperating  |-> v.otherOperating,
     ebit            |-> v.grossRevenue - v.deductions - v.cogs
                         - v.sgaExpenses - v.depreciation + v.otherOperating,
     financialResult |-> v.financialResult,
     ebt             |-> v.grossRevenue - v.deductions - v.cogs
                         - v.sgaExpenses - v.depreciation + v.otherOperating
                         + v.financialResult,
     incomeTax       |-> v.incomeTax,
     netIncome       |-> v.grossRevenue - v.deductions - v.cogs
                         - v.sgaExpenses - v.depreciation + v.otherOperating
                         + v.financialResult - v.incomeTax]

\* aggregateToIncomeStatement: the amounts of the statement (its period is a
\* label taken from the ledger's header)
aggregateToIncomeStatement(accs, maps) ==
    StatementOf(AccumulateIncome(ZeroValues, accs, maps))


-----------------------------------------------------------------------------
(* Specification SpecE2E: a grid parsed, auto-mapped and aggregated *)

\* a page or report header row
E2EPageHeaders == {
    <<Str(<<"L","i","v","r","o"," ","R","a","z","ã","o">>)>>,
    <<Str(<<"E","m","p","r","e","s","a",":"," ","A","C","M","E"," ","L","T","D","A">>), NullCell, Str(<<"P","á","g","i","n","a",":"," ","1">>)>>}

\* an account-header row for 3.1.01 'Receita de Vendas' in each format
\* detectAccountHeader supports
E2EAccountHeaders == {
    <<Str(<<"3",".","1",".","0","1">>), Str(<<"R","e","c","e","i","t","a"," ","d","e"," ","V","e","n","d","a","s">>)>>,
    <<Str(<<"3",".","1",".","0","1"," ","-"," ","R","e","c","e","i","t","a"," ","d","e"," ","V","e","n","d","a","s">>)>>,
    <<Str(<<"C","o","n","t","a",":"," ","3",".","1",".","0","1"," ","-"," ","R","e","c","e","i","t","a"," ","d","e"," ","V","e","n","d","a","s">>)>>,
    <<Str(<<"C","o","n","t","a",":">>), Num(1200), Str(<<"3",".","1",".","0","1">>), NullCell, NullCell, Str(<<"R","e","c","e","i","t","a"," ","d","e"," ","V","e","n","d","a","s">>)>>}

\* three dates of January 2024, as dd/mm/yyyy text or as Excel serials
E2EDates == {
    <<Str(<<"0","5","/","0","1","/","2","0","2","4">>), Str(<<"1","5","/","0","1","/","2","0","2","4">>), Str(<<"2","5","/","0","1","/","2","0","2","4">>)>>,
    <<Num(45296 * 100), Num(45306 * 100), Num(45316 * 100)>>}

\* the credits 100, 200, 300 in every order
E2ECredits == {
    <<100, 200, 300>>, <<100, 300, 200>>, <<200, 100, 300>>,
    <<200, 300, 100>>, <<300, 100, 200>>, <<300, 200, 100>>}

\* an amount of whole units as a numeric cell or as Brazilian-formatted text
E2EAmount(enc, units) ==
    IF enc = "num" THEN Num(units * 100)
    ELSE Str(NatToStr(units) \o <<",","0","0">>)

\* a transaction row: date, description, debit 0, credit
E2ETxn(date, enc, credit) ==
    <<date, Str(<<"V","e","n","d","a">>), E2EAmount(enc, 0), E2EAmount(enc, credit), NullCell>>

\* a 'Totais do período' row: stating the totals, or leaving the cells empty
E2ETotals == {
    <<NullCell, Str(<<"T","o","t","a","i","s"," ","d","o"," ","p","e","r","í","o","d","o">>), Num(0), Num(600 * 100), NullCell>>,
    <<NullCell, Str(<<"T","o","t","a","i","s"," ","d","o"," ","p","e","r","í","o","d","o">>), Str(<<"0",",","0","0">>), Str(<<"6","0","0",",","0","0">>), NullCell>>,
    <<Str(<<"T","o","t","a","i","s"," ","d","o"," ","p","e","r","í","o","d","o">>)>>}

E2EGrids ==
    { <<ph, ah,
        E2ETxn(ds[1], enc, cs[1]), E2ETxn(ds[2], enc, cs[2]), E2ETxn(ds[3], enc, cs[3]),
        tot>> :
        ph \in E2EPageHeaders, ah \in E2EAccountHeaders, ds \in E2EDates,
        cs \in E2ECredits, enc \in {"num", "text"}, tot \in E2ETotals }

\* parseLedger(rows, config)
E2EParse ==
    /\ op = "e2e" /\ pc = "read"
    /\ out' = parseLedger(rows, config)
    /\ pc' = "parsed"
    /\ UNCHANGED <<op, rows, curRow, nRead, config, cur, accounts, mappings, stmt,
                   data, biff, env>>

\* autoMapAccounts(ledger.accounts)
E2EAutoMap ==
    /\ op = "e2e" /\ pc = "parsed"
    /\ mappings' = autoMapAccounts(out)
    /\ pc' = "mapped"
    /\ UNCHANGED <<op, rows, curRow, nRead, config, cur, accounts, out, stmt,
                   data, biff, env>>

\* aggregateToIncomeStatement(ledger, mappings)
E2EAggregate ==
    /\ op = "e2e" /\ pc = "mapped"
    /\ stmt' = <<aggregateToIncomeStatement(out, mappings)>>
    /\ pc' = "done"
    /\ UNCHANGED <<op, rows, curRow, nRead, config, cur, accounts, out, mappings,
                   data, biff, env>>

InitE2E ==
    /\ op = "e2e" /\ pc = "read"
    /\ rows \in E2EGrids
    /\ curRow = <<>> /\ nRead = 0
    /\ config = LedgerConfig
    /\ cur = <<>> /\ accounts = <<>> /\ out = <<>>
    /\ mappings = <<>> /\ stmt = <<>>
    /\ data = <<>> /\ biff = <<>> /\ env = <<>>

NextE2E == E2EParse \/ E2EAutoMap \/ E2EAggregate

SpecE2E == InitE2E /\ [][NextE2E]_vars

\* C1: end to end, a grid made of a page-header row, an account-header row
\* for 3.1.01 'Receita de Vendas', three transaction rows of one month with
\* credits 100, 200, 300 and zero debits, and a 'Totais do período' row gives
\* exactly one account, with totalCredits = 600 and accountType revenue; the
\* automatic mapping assigns it to grossRevenue on the income statement; and
\* the aggregated income statement reports grossRevenue = 600.
C1_EndToEnd ==
    op = "e2e" =>
        /\ pc \in {"parsed", "mapped", "done"} =>
              /\ Len(out) = 1
              /\ out[1].code = <<"3",".","1",".","0","1">>
              /\ out[1].totalCredits = 600 * 100
              /\ out[1].accountType = "revenue"
        /\ pc \in {"mapped", "done"} =>
              /\ Len(mappings) = 1
              /\ mappings[1].accountCode = <<"3",".","1",".","0","1">>
              /\ mappings[1].targetField = "grossRevenue"
              /\ mappings[1].targetStatement = "income_statement"
        /\ pc = "done" => stmt[1].grossRevenue = 600 * 100

\* the pipeline has run to the end on a grid whose three transactions were
\* recorded and whose totals row states the totals
C1_Aggregated ==
    /\ op = "e2e" /\ pc = "done"
    /\ Len(out) = 1 /\ Len(out[1].entries) = 3
    /\ rows[6] \in E2ETotals /\ Len(rows[6]) > 1
    /\ stmt[1].grossRevenue = 600 * 100 /\ stmt[1].netIncome = 600 * 100


-----------------------------------------------------------------------------
(* Specification SpecDedup: deduplicateAccounts on emitted accounts *)

\* the largest number of accounts handed to deduplicateAccounts
MaxAccounts == 3

\* a LedgerEntry with a date and amounts
DedupEntry(date, debit, credit, balance) ==
    [date |-> date, description |-> <<"x">>, debit |-> debit, credit |-> credit,
     balance |-> balance]

\* an account as parseLedger emits it
DedupAccount(code, name, entries, opening, closing, debits, credits) ==
    [NewAccount(code, name) EXCEPT
        !.entries = entries, !.openingBalance = opening, !.closingBalance = closing,
        !.totalDebits = debits, !.totalCredits = credits]

\* the shapes of the occurrences of an account: names of different and of
\* equal length, zero and non-zero balances, entries in and out of date order
DedupShapes == {
    [name |-> <<"C","a","i","x","a">>, entries |-> <<DedupEntry(<<"2","0","2","4","-","0","1","-","1","5">>, 10000, 0, 0)>>,
     opening |-> 0, closing |-> 0, debits |-> 10000, credits |-> 0],
    [name |-> <<"C","a","i","x","a"," ","G","e","r","a","l">>,
     entries |-> <<DedupEntry(<<"2","0","2","4","-","0","1","-","0","5">>, 0, 5000, 100000),
                   DedupEntry(<<"2","0","2","4","-","0","1","-","2","5">>, 3000, 0, 150000)>>,
     opening |-> 100000, closing |-> 150000, debits |-> 3000, credits |-> 5000],
    [name |-> <<"B","a","n","c","o">>, entries |-> <<>>,
     opening |-> 0, closing |-> -20000, debits |-> 0, credits |-> 0],
    [name |-> <<"C","x">>,
     entries |-> <<DedupEntry(<<"2","0","2","4","-","0","2","-","2","5">>, 500, 0, 0),
                   DedupEntry(<<"2","0","2","3","-","1","2","-","0","5">>, 0, 500, 0)>>,
     opening |-> 70000, closing |-> 0, debits |-> 70000, credits |-> 80000],
    [name |-> <<"B","a","n","c","o","s"," ","G","e","r","a","l">>, entries |-> <<DedupEntry(<<"2","0","2","4","-","0","1","-","1","5">>, 0, 250, 90000)>>,
     opening |-> -30000, closing |-> 90000, debits |-> 0, credits |-> 250]}

DedupCodes == {<<"1",".","1",".","0","1">>, <<"2",".","1",".","0","1">>}

DedupPool ==
    { DedupAccount(code, sh.name, sh.entries, sh.opening, sh.closing, sh.debits, sh.credits) :
        code \in DedupCodes, sh \in DedupShapes }

\* parseLedger emits one more account
DedupEmit ==
    /\ op = "dedup" /\ pc = "emit" /\ Len(accounts) < MaxAccounts
    /\ \E acc \in DedupPool : accounts' = Append(accounts, acc)
    /\ UNCHANGED <<op, pc, rows, curRow, nRead, config, cur, out, mappings, stmt,
                   data, biff, env>>

\* deduplicateAccounts(accounts)
DedupRun ==
    /\ op = "dedup" /\ pc = "emit"
    /\ out' = deduplicateAccounts(accounts)
    /\ pc' = "done"
    /\ UNCHANGED <<op, rows, curRow, nRead, config, cur, accounts, mappings, stmt,
                   data, biff, env>>

InitDedup ==
    /\ op = "dedup" /\ pc = "emit"
    /\ rows = <<>> /\ curRow = <<>> /\ nRead = 0
    /\ config = LedgerConfig
    /\ cur = <<>> /\ accounts = <<>> /\ out = <<>>
    /\ mappings = <<>> /\ stmt = <<>>
    /\ data = <<>> /\ biff = <<>> /\ env = <<>>

NextDedup == DedupEmit \/ DedupRun

SpecDedup == InitDedup /\ [][NextDedup]_vars

\* the emitted accounts with a code, in encounter order
Occurrences(code) == SelectSeq(accounts, LAMBDA a : a.code = code)

\* the number of entries of the accounts of a sequence
RECURSIVE EntryCount(_)
EntryCount(accs) == IF accs = <<>> THEN 0 ELSE Len(accs[1].entries) + EntryCount(Tail(accs))

\* C2: deduplication preserves content: the result holds each emitted code
\* exactly once and no other code; the merged account of a code has as many
\* entries as the emitted accounts with that code have together, and its
\* totalDebits and totalCredits are the sums of theirs.
C2_DedupPreserves ==
    (op = "dedup" /\ pc = "done") =>
        /\ \A k \in 1..Len(accounts) :
              Cardinality({j \in 1..Len(out) : out[j].code = accounts[k].code}) = 1
        /\ \A j \in 1..Len(out) :
              /\ Occurrences(out[j].code) # <<>>
              /\ Len(out[j].entries) = EntryCount(Occurrences(out[j].code))
              /\ out[j].totalDebits = SumField(Occurrences(out[j].code), "totalDebits")
              /\ out[j].totalCredits = SumField(Occurrences(out[j].code), "totalCredits")

\* three accounts of one code, with entries and totals, were merged into one
C2_ThreeMerged ==
    /\ op = "dedup" /\ pc = "done"
    /\ Len(accounts) = 3 /\ Len(out) = 1
    /\ \A k \in 1..3 : accounts[k].entries # <<>> /\ accounts[k].totalDebits > 0
    /\ accounts[1] # accounts[2]

\* the value of field f in the first / the last account of a sequence in
\* which it is not 0; 0 when there is none
RECURSIVE FirstNonZero(_, _)
FirstNonZero(accs, f) ==
    IF accs = <<>> THEN 0
    ELSE IF accs[1][f] # 0 THEN accs[1][f]
    ELSE FirstNonZero(Tail(accs), f)

RECURSIVE LastNonZero(_, _)
LastNonZero(accs, f) ==
    IF accs = <<>> THEN 0
    ELSE IF accs[Len(accs)][f] # 0 THEN accs[Len(accs)][f]
    ELSE LastNonZero(SubSeq(accs, 1, Len(accs) - 1), f)

\* C3: when accounts sharing a code are merged in encounter order, the merged
\* closingBalance is that of the last occurrence whose closing balance is not
\* 0, the merged openingBalance is that of the first occurrence whose opening
\* balance is not 0 (each 0 when no occurrence has one), the merged name is
\* the longest name among the occurrences (the first of that length), and the
\* merged entries are in non-decreasing order of their yyyy-mm-dd dates.
C3_MergeRules ==
    (op = "dedup" /\ pc = "done") =>
        \A j \in 1..Len(out) :
            /\ out[j].closingBalance = LastNonZero(Occurrences(out[j].code), "closingBalance")
            /\ out[j].openingBalance = FirstNonZero(Occurrences(out[j].code), "openingBalance")
            /\ \E k \in 1..Len(Occurrences(out[j].code)) :
                  /\ out[j].name = Occurrences(out[j].code)[k].name
                  /\ \A i \in 1..Len(Occurrences(out[j].code)) :
                        /\ Len(Occurrences(out[j].code)[i].name) <= Len(out[j].name)
                        /\ i < k => Len(Occurrences(out[j].code)[i].name) < Len(out[j].name)
            /\ \A i \in 1..(Len(out[j].entries) - 1) :
                  DateLeq(out[j].entries[i].date, out[j].entries[i + 1].date)

\* a merge in which a later occurrence has a shorter name, a zero closing
\* balance and a non-zero opening balance, and entries dated before those of
\* an earlier one
C3_LaterShorterMerged ==
    /\ op = "dedup" /\ pc = "done"
    /\ Len(accounts) = 3 /\ Len(out) = 1
    /\ accounts[1].closingBalance # 0 /\ accounts[1].openingBalance # 0
    /\ accounts[2].closingBalance # 0 /\ accounts[2].closingBalance # accounts[1].closingBalance
    /\ accounts[3].closingBalance = 0 /\ accounts[3].openingBalance # 0
    /\ Len(accounts[3].name) < Len(accounts[1].name)
    /\ Len(accounts[2].name) > Len(accounts[1].name)
    /\ accounts[3].entries # <<>>
    /\ ~DateLeq(accounts[1].entries[1].date, accounts[3].entries[Len(accounts[3].entries)].date)


-----------------------------------------------------------------------------
(* autoDetectColumns *)

\* what autoDetectColumns gives: a ColumnConfig (cfg holds it), null, or a
\* TypeError raised on the way
Detected(cfg) == [kind |-> "config", cfg |-> <<cfg>>]
Undetected    == [kind |-> "null", cfg |-> <<>>]
DetectRaised  == [kind |-> "raised", cfg |-> <<>>]

\* the text standing for an element of `cells` that row.map left absent
AbsentText == <<"absent">>

\* cells = row.map((c) => String(c ?? '').toLowerCase().trim()): map skips the
\* holes of the row, which stay holes of cells
LabelCells(r) ==
    [k \in 1..Len(r) |-> IF r[k].t = "hole" THEN AbsentText
                         ELSE Trim(Lower(CellStr(r[k])))]

\* cells.findIndex((c) => c === l1 || c === l2 ...), from the index k on;
\* findIndex visits a hole as undefined, which equals no label
RECURSIVE FindLabel(_, _, _)
FindLabel(cells, labels, k) ==
    IF k >= Len(cells) THEN -1
    ELSE IF cells[k + 1] \in labels THEN k
    ELSE FindLabel(cells, labels, k + 1)

\* cells.findIndex((c) => c.includes('saldo') && c.includes('exerc')), from the
\* index k on: c.includes raises a TypeError when findIndex visits a hole
RECURSIVE FindBalanceEx(_, _)
FindBalanceEx(cells, k) ==
    IF k >= Len(cells) THEN [raised |-> FALSE, idx |-> -1]
    ELSE IF cells[k + 1] = AbsentText THEN [raised |-> TRUE, idx |-> -1]
    ELSE IF Includes(cells[k + 1], kwSaldo) /\ Includes(cells[k + 1], kwExerc)
         THEN [raised |-> FALSE, idx |-> k]
    ELSE FindBalanceEx(cells, k + 1)

\* a labeled config in which a missing debit label is guessed from the date
LabeledConfig_GuessDebit(dateIdx, debitIdx, creditIdx, balanceIdx, balanceExIdx, descIdx) ==
    [dateCol        |-> dateIdx,
     descriptionCol |-> IF descIdx >= 0 THEN descIdx ELSE dateIdx + 1,
     debitCol       |-> IF debitIdx >= 0 THEN debitIdx ELSE dateIdx + 2,
     creditCol      |-> IF creditIdx >= 0 THEN creditIdx ELSE -1,
     balanceCol     |-> IF balanceIdx >= 0 THEN balanceIdx ELSE -1,
     balanceExCol   |-> IF balanceExIdx >= 0 THEN balanceExIdx ELSE -1]

\* the ColumnConfig the labeled pass returns
LabeledConfig(dateIdx, debitIdx, creditIdx, balanceIdx, balanceExIdx, descIdx) ==
    [dateCol        |-> dateIdx,
     descriptionCol |-> IF descIdx >= 0 THEN descIdx ELSE dateIdx + 1,
     debitCol       |-> IF debitIdx >= 0 THEN debitIdx ELSE -1,
     creditCol      |-> IF creditIdx >= 0 THEN creditIdx ELSE -1,
     balanceCol     |-> IF balanceIdx >= 0 THEN balanceIdx ELSE -1,
     balanceExCol   |-> IF balanceExIdx >= 0 THEN balanceExIdx ELSE -1]

\* the labeled pass over the rows of the grid from the k-th on: "none" when no
\* row qualifies
RECURSIVE LabeledPass(_, _)
LabeledRow(grid, k, dateIdx, debitIdx, creditIdx, balanceIdx, balanceEx, descIdx) ==
    IF balanceEx.raised THEN DetectRaised
    ELSE IF dateIdx >= 0 /\ (debitIdx >= 0 \/ creditIdx >= 0)
         THEN Detected(LabeledConfig(dateIdx, debitIdx, creditIdx, balanceIdx,
                                     balanceEx.idx, descIdx))
    ELSE LabeledPass(grid, k + 1)

LabeledCells(grid, k, cells) ==
    LabeledRow(grid, k,
               FindLabel(cells, {kwData}, 0),
               FindLabel(cells, {kwDebitoA, kwDebito}, 0),
               FindLabel(cells, {kwCreditoA, kwCredito}, 0),
               FindLabel(cells, {kwSaldo}, 0),
               FindBalanceEx(cells, 0),
               FindLabel(cells, {kwHistoricoA, kwHistorico}, 0))

LabeledPass(grid, k) ==
    IF k > Len(grid) THEN [kind |-> "none", cfg |-> <<>>]
    ELSE LabeledCells(grid, k, LabelCells(grid[k]))

\* the loop over the cells of a row in the positional pass, from the index c
\* on: [dateCol, numericCols]
RECURSIVE PositionalScan(_, _, _, _)
PositionalScan(r, c, dateCol, numericCols) ==
    IF c >= Len(r) THEN [dateCol |-> dateCol, numericCols |-> numericCols]
    ELSE IF IsNullish(At(r, c)) THEN PositionalScan(r, c + 1, dateCol, numericCols)
    ELSE IF dateCol = -1 /\ isDateCell(At(r, c))
         THEN PositionalScan(r, c + 1, c, numericCols)
    ELSE IF At(r, c).t = "num" /\ ~isExcelDateSerial(At(r, c))
         THEN PositionalScan(r, c + 1, dateCol, Append(numericCols, c))
    ELSE PositionalScan(r, c + 1, dateCol, numericCols)

\* the ColumnConfig the positional pass returns
PositionalConfig(dateCol, numericCols) ==
    [dateCol        |-> dateCol,
     descriptionCol |-> dateCol + 1,
     debitCol       |-> numericCols[1],
     creditCol      |-> numericCols[2],
     balanceCol     |-> IF Len(numericCols) >= 3 THEN numericCols[3] ELSE -1,
     balanceExCol   |-> IF Len(numericCols) >= 4 THEN numericCols[4] ELSE -1]

\* the positional pass over the rows of the grid from the k-th on
RECURSIVE PositionalPass(_, _)
PositionalRow(grid, k, found) ==
    IF found.dateCol >= 0 /\ Len(found.numericCols) >= 2
    THEN Detected(PositionalConfig(found.dateCol, found.numericCols))
    ELSE PositionalPass(grid, k + 1)

PositionalPass(grid, k) ==
    IF k > Len(grid) THEN Undetected
    ELSE IF Len(grid[k]) < 4 THEN PositionalPass(grid, k + 1)
    ELSE PositionalRow(grid, k, PositionalScan(grid[k], 0, -1, <<>>))

AfterLabeled(grid, labeled) ==
    IF labeled.kind = "none" THEN PositionalPass(grid, 1) ELSE labeled

\* autoDetectColumns
autoDetectColumns(grid) == AfterLabeled(grid, LabeledPass(grid, 1))


-----------------------------------------------------------------------------
(* Specification SpecDetect: autoDetectColumns on a grid of raw rows *)

\* the largest number of rows of a grid handed to autoDetectColumns
MaxDetectRows == 2

\* rows with every label, with some labels, with labels and an absent cell,
\* and data rows of different lengths, with dates as text or serials, with
\* and without absent cells
DetectPool == {
    <<Str(<<"D","a","t","a">>), Str(<<"H","i","s","t","ó","r","i","c","o">>), Str(<<"D","é","b","i","t","o">>), Str(<<"C","r","é","d","i","t","o">>), Str(<<"S","a","l","d","o">>)>>,
    <<Str(<<"D","a","t","a">>), Str(<<"D","é","b","i","t","o">>)>>,
    <<Str(<<"C","o","n","t","a">>), Str(<<" ","D","A","T","A"," ">>), NullCell, Str(<<"c","r","e","d","i","t","o">>), Str(<<"S","a","l","d","o"," ","E","x","e","r","c","."," ","A","n","t","e","r","i","o","r">>)>>,
    <<Str(<<"H","i","s","t","ó","r","i","c","o">>), Str(<<"S","a","l","d","o">>), Str(<<"D","a","t","a">>), Str(<<"V","a","l","o","r">>)>>,
    <<Str(<<"D","a","t","a">>), Hole, Str(<<"D","é","b","i","t","o">>), Str(<<"C","r","é","d","i","t","o">>)>>,
    <<Str(<<"0","5","/","0","1","/","2","0","2","4">>), Str(<<"V","e","n","d","a">>), Num(10000), Num(20000), Num(30000)>>,
    <<Str(<<"0","5","/","0","1","/","2","0","2","4">>), Num(10000), Num(20000)>>,
    <<NullCell, Num(45300 * 100), Str(<<"x">>), Num(1000), Str(<<"1","5","/","0","1","/","2","0","2","4">>), Num(2050)>>,
    <<Str(<<"0","5","/","0","1","/","2","0","2","4">>), Hole, Num(10000), Num(20000)>>,
    <<Str(<<"x">>), Num(100), Num(200), Num(300)>>,
    <<Num(700), Str(<<"5","/","1","/","2","4">>), Str(<<"d","e","s","c">>), Num(10000)>>,
    <<Str(<<"L","i","v","r","o"," ","R","a","z","ã","o">>)>>,
    <<Str(<<"0","5","/","0","1","/","2","0","2","4">>), Str(<<"d">>), Num(100), Num(200), Num(300), Num(400)>>}

\* the file reader hands over one more row
DetectAddRow ==
    /\ op = "detect" /\ pc = "read" /\ Len(rows) < MaxDetectRows
    /\ \E r \in DetectPool : rows' = Append(rows, r)
    /\ UNCHANGED <<op, pc, curRow, nRead, config, cur, accounts, out, mappings, stmt,
                   data, biff, env>>

\* autoDetectColumns(rows)
DetectRun ==
    /\ op = "detect" /\ pc = "read"
    /\ out' = autoDetectColumns(rows)
    /\ pc' = "done"
    /\ UNCHANGED <<op, rows, curRow, nRead, config, cur, accounts, mappings, stmt,
                   data, biff, env>>

InitDetect ==
    /\ op = "detect" /\ pc = "read"
    /\ rows = <<>> /\ curRow = <<>> /\ nRead = 0
    /\ config = <<>>
    /\ cur = <<>> /\ accounts = <<>> /\ out = <<>>
    /\ mappings = <<>> /\ stmt = <<>>
    /\ data = <<>> /\ biff = <<>> /\ env = <<>>

NextDetect == DetectAddRow \/ DetectRun

SpecDetect == InitDetect /\ [][NextDetect]_vars

\* the label text of the k-th cell of a row (k from 1); absent cells have none
LabelText(r, k) == Trim(Lower(CellStr(r[k])))

\* the zero-based index of the first cell of a row whose label is one of
\* `labels`; -1 when the row has none
FirstLabelled(r, labels) ==
    IF \E k \in 1..Len(r) : r[k].t # "hole" /\ LabelText(r, k) \in labels
    THEN (CHOOSE k \in 1..Len(r) :
             /\ r[k].t # "hole" /\ LabelText(r, k) \in labels
             /\ \A j \in 1..(k - 1) : ~(r[j].t # "hole" /\ LabelText(r, j) \in labels)) - 1
    ELSE -1

\* the cells labelled as the alternate (previous-exercise) balance
IsAltBalance(r, k) ==
    r[k].t # "hole" /\ Includes(LabelText(r, k), kwSaldo) /\ Includes(LabelText(r, k), kwExerc)

FirstAltBalance(r) ==
    IF \E k \in 1..Len(r) : IsAltBalance(r, k)
    THEN (CHOOSE k \in 1..Len(r) :
             IsAltBalance(r, k) /\ \A j \in 1..(k - 1) : ~IsAltBalance(r, j)) - 1
    ELSE -1

KnownLabels ==
    {kwData, kwDebitoA, kwDebito, kwCreditoA, kwCredito, kwSaldo, kwHistoricoA, kwHistorico}

\* a row with a cell labeled 'data' and a cell labeled debit or credit
HasLabels(r) ==
    /\ FirstLabelled(r, {kwData}) >= 0
    /\ FirstLabelled(r, {kwDebitoA, kwDebito, kwCreditoA, kwCredito}) >= 0

\* the first row of the grid that has the labels (0 when none has)
FirstLabelledRow ==
    IF \E k \in 1..Len(rows) : HasLabels(rows[k])
    THEN CHOOSE k \in 1..Len(rows) :
            HasLabels(rows[k]) /\ \A j \in 1..(k - 1) : ~HasLabels(rows[j])
    ELSE 0

\* no cell of the grid matches a known header label
NoLabelCell ==
    \A k \in 1..Len(rows) : \A j \in 1..Len(rows[k]) :
        rows[k][j].t # "hole" =>
            LabelText(rows[k], j) \notin KnownLabels /\ ~IsAltBalance(rows[k], j)

\* the cells of a row holding a dd/mm/yyyy-shaped string, and those holding a
\* plain (not date-like) number
DateStringCells(r) ==
    {k \in 1..Len(r) : r[k].t = "str" /\ MatchBrDate(Trim(r[k].s)).ok}

PlainNumberCells(r) == {k \in 1..Len(r) : r[k].t = "num" /\ ~isExcelDateSerial(r[k])}

\* the k-th smallest element of a set of numbers
RECURSIVE KthOf(_, _)
KthOf(S, k) ==
    IF k = 1 THEN CHOOSE x \in S : \A y \in S : x <= y
    ELSE KthOf(S \ {CHOOSE x \in S : \A y \in S : x <= y}, k - 1)

\* a row holding one dd/mm/yyyy-shaped string cell and at least two plain
\* numeric cells
FallbackRow(r) == Cardinality(DateStringCells(r)) = 1 /\ Cardinality(PlainNumberCells(r)) >= 2

\* C7: detection fallback: for any grid in which no cell matches a known
\* header label and some row holds one dd/mm/yyyy-shaped string cell and two
\* plain numeric cells, autoDetectColumns returns the config of the positional
\* pass for such a row: dateCol is the index of its date cell and debitCol /
\* creditCol are the indices of its first two numeric cells, whatever the
\* row's length.
C7_PositionalFallback ==
    (op = "detect" /\ pc = "done" /\ NoLabelCell
        /\ \E k \in 1..Len(rows) : FallbackRow(rows[k]))
    => /\ out.kind = "config"
       /\ \E k \in 1..Len(rows) :
             /\ FallbackRow(rows[k])
             /\ out.cfg[1].dateCol = KthOf(DateStringCells(rows[k]), 1) - 1
             /\ out.cfg[1].debitCol = KthOf(PlainNumberCells(rows[k]), 1) - 1
             /\ out.cfg[1].creditCol = KthOf(PlainNumberCells(rows[k]), 2) - 1

\* a grid without labels whose only row has a date string, two numbers and an
\* absent cell between them makes autoDetectColumns raise
C7_SparseRowRaises ==
    /\ op = "detect" /\ pc = "done" /\ NoLabelCell
    /\ Len(rows) = 1 /\ FallbackRow(rows[1]) /\ Len(rows[1]) >= 4
    /\ out.kind = "raised"

\* the roles of a config returned while a row of the grid has the labels, r
\* being the first such row: the date, debit, credit, balance and alternate
\* balance columns are the first cells so labeled, -1 when r has none
LabeledRoles(cfg, r) ==
    /\ cfg.dateCol = FirstLabelled(r, {kwData})
    /\ cfg.debitCol = FirstLabelled(r, {kwDebitoA, kwDebito})
    /\ cfg.creditCol = FirstLabelled(r, {kwCreditoA, kwCredito})
    /\ cfg.balanceCol = FirstLabelled(r, {kwSaldo})
    /\ cfg.balanceExCol = FirstAltBalance(r)

\* C8 as stated: in the labeled pass a row qualifies iff it has a cell
\* labeled 'data' and at least one labeled debit or credit, and in the
\* returned config every role (description, debit, credit, balance, alternate
\* balance) whose label is missing from that row is -1.
C8_MissingRolesAbsent ==
    (op = "detect" /\ pc = "done" /\ out.kind = "config" /\ FirstLabelledRow # 0)
    => /\ LabeledRoles(out.cfg[1], rows[FirstLabelledRow])
       /\ out.cfg[1].descriptionCol =
             FirstLabelled(rows[FirstLabelledRow], {kwHistoricoA, kwHistorico})

\* C8 amended: whenever autoDetectColumns returns a config for a grid in which
\* some row has a cell labeled 'data' and a cell labeled debit or credit, the
\* config is that of the first such row: debit, credit, balance and alternate
\* balance are -1 when their label is missing from the row, while a missing
\* description label gives the column right after the date label.
C8_MissingRolesExceptDescription ==
    (op = "detect" /\ pc = "done" /\ out.kind = "config" /\ FirstLabelledRow # 0)
    => /\ LabeledRoles(out.cfg[1], rows[FirstLabelledRow])
       /\ out.cfg[1].descriptionCol =
             IF FirstLabelled(rows[FirstLabelledRow], {kwHistoricoA, kwHistorico}) >= 0
             THEN FirstLabelled(rows[FirstLabelledRow], {kwHistoricoA, kwHistorico})
             ELSE out.cfg[1].dateCol + 1

\* a config was returned from a second row that has the 'data' and a debit
\* label only, after a data row that the positional pass would have taken
C8_DateAndDebitOnly ==
    /\ op = "detect" /\ pc = "done" /\ out.kind = "config"
    /\ FirstLabelledRow = 2 /\ FallbackRow(rows[1]) /\ Len(rows[1]) >= 4
    /\ out.cfg[1].creditCol = -1 /\ out.cfg[1].balanceCol = -1
    /\ out.cfg[1].balanceExCol = -1
    /\ out.cfg[1].debitCol = 1 /\ out.cfg[1].descriptionCol = 1


-----------------------------------------------------------------------------
(* parseBiffManual: the record scan of the Workbook stream *)

\* A Uint8Array is a sequence of bytes; offsets are zero-based as in the code.

\* buf[off] inside a bitwise expression: undefined, past the end, counts as 0
Byte(buf, off) == IF off >= 0 /\ off < Len(buf) THEN buf[off + 1] ELSE 0

\* buf.subarray(a, b): clamped to the bytes buf has
Subarray(buf, a, b) == Sub(buf, a + 1, b)

\* u16le
u16le(buf, off) == Byte(buf, off) + 256 * Byte(buf, off + 1)

\* u32le
u32le(buf, off) ==
    Byte(buf, off) + 256 * Byte(buf, off + 1) + 65536 * Byte(buf, off + 2)
    + 16777216 * Byte(buf, off + 3)

\* i32le: the same bytes as a signed 32-bit integer
i32le(buf, off) ==
    Byte(buf, off) + 256 * Byte(buf, off + 1) + 65536 * Byte(buf, off + 2)
    + 16777216 * (IF Byte(buf, off + 3) >= 128 THEN Byte(buf, off + 3) - 256
                  ELSE Byte(buf, off + 3))

\* the IEEE 754 doubles the streams hold, by their little-endian bytes, as
\* hundredths
DoubleOf ==
    (<<0, 0, 0, 0, 0, 0, 89, 64>> :> 10000) @@
    (<<10, 215, 163, 112, 61, 74, 147, 64>> :> 123456) @@
    (<<0, 0, 0, 0, 0, 0, 4, 64>> :> 250) @@
    (<<0, 0, 0, 0, 0, 64, 127, 192>> :> -50000)

\* DataView.getFloat64 on eight bytes: a double whose exponent bits are all 0
\* is 0 or a subnormal, 0 in hundredths
DecodeF64(bytes) ==
    IF bytes[8] % 128 = 0 /\ bytes[7] < 16 THEN 0 ELSE DoubleOf[bytes]

\* f64le: DataView.getFloat64(off) raises a RangeError unless the view holds
\* the eight bytes from off on
f64leRaises(buf, off) == off + 8 > Len(buf)

f64le(buf, off) == DecodeF64(SubSeq(buf, off + 1, off + 8))

\* String.fromCharCode for the codes the streams hold; any other code unit is
\* written as its number
CharOf ==
    (0 :> "NUL") @@ (65 :> "A") @@ (98 :> "b") @@ (67 :> "C") @@ (72 :> "H") @@
    (105 :> "i") @@ (82 :> "R")

FromCharCode(code) == IF code \in DOMAIN CharOf THEN CharOf[code] ELSE ToString(code)

\* the record types the scan knows
REC_BOUNDSHEET == 133
REC_SST        == 252
REC_CONTINUE   == 60
REC_LABELSST   == 253
REC_NUMBER     == 515
REC_RK         == 638
REC_LABEL      == 516

\* the name loop of a BoundSheet8 record, from the i-th character on, on the
\* whole stream d: bounded by nameLen and by the declared end of the record
RECURSIVE BoundSheetName(_, _, _, _, _, _)
BoundSheetName(d, i, nameLen, nameStart, recEnd, isWide) ==
    IF isWide
    THEN IF i < nameLen /\ nameStart + i * 2 + 1 < recEnd
         THEN <<FromCharCode(u16le(d, nameStart + i * 2))>>
              \o BoundSheetName(d, i + 1, nameLen, nameStart, recEnd, isWide)
         ELSE <<>>
    ELSE IF i < nameLen /\ nameStart + i < recEnd
         THEN <<FromCharCode(Byte(d, nameStart + i))>>
              \o BoundSheetName(d, i + 1, nameLen, nameStart, recEnd, isWide)
         ELSE <<>>

\* the characters parseSstBuffer reads for one string, from pos on, i being
\* the number read so far: [str, pos]
RECURSIVE SstChars(_, _, _, _, _, _)
SstChars(buf, pos, i, charCount, isWide, str) ==
    IF isWide
    THEN IF i < charCount /\ pos + 1 < Len(buf)
         THEN SstChars(buf, pos + 2, i + 1, charCount, isWide,
                       Append(str, FromCharCode(u16le(buf, pos))))
         ELSE [str |-> str, pos |-> pos]
    ELSE IF i < charCount /\ pos < Len(buf)
         THEN SstChars(buf, pos + 1, i + 1, charCount, isWide,
                       Append(str, FromCharCode(Byte(buf, pos))))
         ELSE [str |-> str, pos |-> pos]

\* the loop of parseSstBuffer from pos on: the strings appended to sst
RECURSIVE SstLoop(_, _, _)
SstAfterString(buf, sst, read, rtRuns, extSize) ==
    SstLoop(buf, read.pos + rtRuns * 4 + extSize, Append(sst, read.str))

SstString(buf, pos, sst, charCount, flags, rtRuns, extSize) ==
    SstAfterString(buf, sst, SstChars(buf, pos, 0, charCount, flags % 2 = 1, <<>>),
                   rtRuns, extSize)

\* after the three bytes of the string header: the optional rich-text run
\* count and extended size
SstHeader(buf, pos, sst, charCount, flags) ==
    IF (flags \div 8) % 2 = 1
    THEN IF (flags \div 4) % 2 = 1
         THEN SstString(buf, pos + 6, sst, charCount, flags,
                        u16le(buf, pos), u32le(buf, pos + 2))
         ELSE SstString(buf, pos + 2, sst, charCount, flags, u16le(buf, pos), 0)
    ELSE IF (flags \div 4) % 2 = 1
         THEN SstString(buf, pos + 4, sst, charCount, flags, 0, u32le(buf, pos))
         ELSE SstString(buf, pos, sst, charCount, flags, 0, 0)

SstLoop(buf, pos, sst) ==
    IF ~(pos + 2 < Len(buf)) THEN sst
    ELSE IF u16le(buf, pos) > 32767 THEN sst
    ELSE SstHeader(buf, pos + 3, sst, u16le(buf, pos), Byte(buf, pos + 2))

\* parseSstBuffer: sst with the strings of buf appended
parseSstBuffer(buf, sst) == SstLoop(buf, 8, sst)

\* rowsMap[row][col] = val: the row is created when missing and grows, with
\* holes, up to col
RowWithCell(r, col, val) ==
    [k \in 1..(IF col + 1 > Len(r) THEN col + 1 ELSE Len(r)) |->
        IF k = col + 1 THEN val ELSE IF k <= Len(r) THEN r[k] ELSE Hole]

SetCell(b, row, col, val) ==
    [b EXCEPT
        !.rowsMap = (row :> RowWithCell(IF row \in DOMAIN b.rowsMap THEN b.rowsMap[row]
                                        ELSE <<>>, col, val)) @@ b.rowsMap,
        !.maxRow  = IF row > b.maxRow THEN row ELSE b.maxRow]

\* the value of an RK record: a 30-bit integer or the high 30 bits of a
\* double, divided by 100 when bit 0 is set
RkValue(recData) ==
    IF (Byte(recData, 6) \div 2) % 2 = 1
    THEN IF Byte(recData, 6) % 2 = 1
         THEN i32le(recData, 6) \div 4
         ELSE (i32le(recData, 6) \div 4) * 100
    ELSE IF Byte(recData, 6) % 2 = 1
         THEN DecodeF64(<<0, 0, 0, 0, Byte(recData, 6) - (Byte(recData, 6) % 4),
                          Byte(recData, 7), Byte(recData, 8), Byte(recData, 9)>>) \div 100
         ELSE DecodeF64(<<0, 0, 0, 0, Byte(recData, 6) - (Byte(recData, 6) % 4),
                          Byte(recData, 7), Byte(recData, 8), Byte(recData, 9)>>)

\* the string loop of a LABEL record, bounded by strLen and by the declared
\* length of the record
RECURSIVE LabelChars(_, _, _, _)
LabelChars(recData, i, strLen, recLen) ==
    IF i < strLen /\ 8 + i < recLen
    THEN <<FromCharCode(Byte(recData, 8 + i))>> \o LabelChars(recData, i + 1, strLen, recLen)
    ELSE <<>>


\* the state of the scan of parseBiffManual when the loop starts; sstBuf is
\* <<>> for null, raised tells that an exception left the function
BiffStart ==
    [offset |-> 0, rowsMap |-> <<>>, sst |-> <<>>, sstBuf |-> <<>>, lastRecType |-> 0,
     maxRow |-> 0, sheetNames |-> <<>>, raised |-> FALSE]

\* a BoundSheet8 record: the sheet name is read from the stream itself
BoundSheetStep(d, b, recType, recLen) ==
    IF recType = REC_BOUNDSHEET /\ recLen >= 8
    THEN [b EXCEPT !.sheetNames =
             Append(@, BoundSheetName(d, 0, Byte(d, b.offset + 4 + 6), b.offset + 4 + 8,
                                      b.offset + 4 + recLen,
                                      Byte(d, b.offset + 4 + 7) % 2 = 1))]
    ELSE b

\* the four kinds of cell record
CellRecords(b, recType, recLen, recData) ==
    IF recType = REC_LABELSST /\ recLen >= 10
    THEN SetCell(b, u16le(recData, 0), u16le(recData, 2),
                 IF u32le(recData, 6) < Len(b.sst)
                 THEN Str(b.sst[u32le(recData, 6) + 1]) ELSE Str(<<>>))
    ELSE IF recType = REC_NUMBER /\ recLen >= 14
    THEN IF f64leRaises(recData, 6) THEN [b EXCEPT !.raised = TRUE]
         ELSE SetCell(b, u16le(recData, 0), u16le(recData, 2), Num(f64le(recData, 6)))
    ELSE IF recType = REC_RK /\ recLen >= 10
    THEN SetCell(b, u16le(recData, 0), u16le(recData, 2), Num(RkValue(recData)))
    ELSE IF recType = REC_LABEL /\ recLen >= 8
    THEN SetCell(b, u16le(recData, 0), u16le(recData, 2),
                 Str(LabelChars(recData, 0, u16le(recData, 6), recLen)))
    ELSE b

\* a record that is neither SST nor its CONTINUE: the collected SST buffer is
\* parsed first
FlushSst(b, recType) ==
    IF b.sstBuf # <<>> /\ b.lastRecType = REC_SST
    THEN [b EXCEPT !.sst = parseSstBuffer(b.sstBuf[1], b.sst), !.sstBuf = <<>>,
                   !.lastRecType = recType]
    ELSE [b EXCEPT !.lastRecType = recType]

\* the SST / CONTINUE / other branches of one iteration
SstStep(b, recType, recLen, recData) ==
    IF recType = REC_SST
    THEN [b EXCEPT !.sstBuf = <<recData>>, !.lastRecType = recType]
    ELSE IF recType = REC_CONTINUE /\ b.lastRecType = REC_SST
    THEN IF b.sstBuf # <<>> THEN [b EXCEPT !.sstBuf = <<b.sstBuf[1] \o recData>>] ELSE b
    ELSE CellRecords(FlushSst(b, recType), recType, recLen, recData)

\* offset += 4 + recLen, unless the iteration raised
Advance(b, recLen) == IF b.raised THEN b ELSE [b EXCEPT !.offset = @ + 4 + recLen]

BiffRecord(d, b, recType, recLen) ==
    Advance(SstStep(BoundSheetStep(d, b, recType, recLen), recType, recLen,
                    Subarray(d, b.offset + 4, b.offset + 4 + recLen)),
            recLen)

\* one iteration of the while loop of parseBiffManual
BiffIteration(d, b) == BiffRecord(d, b, u16le(d, b.offset), u16le(d, b.offset + 2))

\* the loop condition and the break on a record of type 0 and length 0
ScanContinues(d, b) ==
    /\ ~b.raised
    /\ b.offset + 4 <= Len(d)
    /\ ~(u16le(d, b.offset) = 0 /\ u16le(d, b.offset + 2) = 0)

\* the whole loop
RECURSIVE ScanAll(_, _)
ScanAll(d, b) == IF ScanContinues(d, b) THEN ScanAll(d, BiffIteration(d, b)) ELSE b

\* the rows of rowsMap in ascending order of their index
RECURSIVE RowsInOrder(_, _)
RowsInOrder(rowsMap, left) ==
    IF left = {} THEN <<>>
    ELSE <<rowsMap[CHOOSE r \in left : \A q \in left : r <= q]>>
         \o RowsInOrder(rowsMap, left \ {CHOOSE r \in left : \A q \in left : r <= q})

\* what parseBiffManual returns after the loop
BiffResult(b) ==
    [kind   |-> "rows",
     rows   |-> RowsInOrder(b.rowsMap, DOMAIN b.rowsMap),
     sheets |-> IF Len(b.sheetNames) > 0 THEN b.sheetNames ELSE <<<<"R","a","z","ã","o">>>>]

BiffRaised == [kind |-> "raised", rows |-> <<>>, sheets |-> <<>>]

\* the scan of parseBiffManual on the bytes of the Workbook stream
ParseStream(d, b) == IF b.raised THEN BiffRaised ELSE BiffResult(b)

ScanStream(d) == ParseStream(d, ScanAll(d, BiffStart))

-----------------------------------------------------------------------------
(* Specification SpecBiff: the record scan on streams cut short at the tail *)

\* the largest number of records of a stream, and of bytes cut from its tail
MaxRecords == 3
MaxCut     == 14

\* a record: type, declared length, payload
BiffRec(type, payload) ==
    <<type % 256, type \div 256, Len(payload) % 256, Len(payload) \div 256>> \o payload

\* a sheet name, a shared-string table and its continuation, and one cell
\* record of each kind
BiffPool == {
    BiffRec(REC_BOUNDSHEET, <<0, 0, 0, 0, 0, 0, 1, 0, 82>>),
    BiffRec(REC_SST, <<1, 0, 0, 0, 1, 0, 0, 0, 2, 0, 0, 65, 98>>),
    BiffRec(REC_CONTINUE, <<1, 0, 0, 67>>),
    BiffRec(REC_LABELSST, <<1, 0, 1, 0, 0, 0, 0, 0, 0, 0>>),
    BiffRec(REC_NUMBER, <<0, 0, 2, 0, 0, 0, 0, 0, 0, 0, 0, 0, 89, 64>>),
    BiffRec(REC_RK, <<1, 0, 0, 0, 0, 0, 34, 3, 0, 0>>),
    BiffRec(REC_LABEL, <<2, 0, 1, 0, 0, 0, 2, 0, 72, 105>>),
    BiffRec(10, <<>>)}

RECURSIVE Concat(_)
Concat(seqs) == IF seqs = <<>> THEN <<>> ELSE seqs[1] \o Concat(Tail(seqs))

BiffStreams ==
    { Sub(Concat(rs), 1, Len(Concat(rs)) - cut) :
        rs \in UNION {[1..n -> BiffPool] : n \in 0..MaxRecords}, cut \in 0..MaxCut }

\* one iteration of the loop that completes
BiffScanRecord ==
    /\ op = "biff" /\ pc = "scan"
    /\ ScanContinues(data, biff)
    /\ ~BiffIteration(data, biff).raised
    /\ biff' = BiffIteration(data, biff)
    /\ UNCHANGED <<op, pc, rows, curRow, nRead, config, cur, accounts, out, mappings,
                   stmt, data, env>>

\* one iteration in which f64le raises: the exception leaves parseBiffManual
BiffRaise ==
    /\ op = "biff" /\ pc = "scan"
    /\ ScanContinues(data, biff)
    /\ BiffIteration(data, biff).raised
    /\ biff' = BiffIteration(data, biff)
    /\ out' = BiffRaised
    /\ pc' = "raised"
    /\ UNCHANGED <<op, rows, curRow, nRead, config, cur, accounts, mappings, stmt,
                   data, env>>

\* the loop ends: the rows are materialized and returned
BiffReturn ==
    /\ op = "biff" /\ pc = "scan"
    /\ ~ScanContinues(data, biff)
    /\ out' = BiffResult(biff)
    /\ pc' = "done"
    /\ UNCHANGED <<op, rows, curRow, nRead, config, cur, accounts, mappings, stmt,
                   data, biff, env>>

InitBiff ==
    /\ op = "biff" /\ pc = "scan"
    /\ rows = <<>> /\ curRow = <<>> /\ nRead = 0
    /\ config = <<>>
    /\ cur = <<>> /\ accounts = <<>> /\ out = <<>>
    /\ mappings = <<>> /\ stmt = <<>>
    /\ data \in BiffStreams
    /\ biff = BiffStart
    /\ env = <<>>

NextBiff == BiffScanRecord \/ BiffRaise \/ BiffReturn

SpecBiff == InitBiff /\ [][NextBiff]_vars

\* the offset of the record at the tail of a stream whose declared length
\* exceeds the bytes remaining, walking the record headers from off; -1 when
\* the stream has none
RECURSIVE PartialTail(_, _)
PartialTail(d, off) ==
    IF off + 4 > Len(d) THEN -1
    ELSE IF u16le(d, off) = 0 /\ u16le(d, off + 2) = 0 THEN -1
    ELSE IF off + 4 + u16le(d, off + 2) > Len(d) THEN off
    ELSE PartialTail(d, off + 4 + u16le(d, off + 2))

\* C10: in the binary record scan a partial or corrupt record, such as a cell
\* record at the tail whose declared length exceeds the bytes remaining in
\* the stream, is skipped without aborting the scan: parseBiffManual does not
\* raise, and it returns every row decoded from the records before it.
C10_PartialRecordSkipped ==
    (op = "biff" /\ pc \in {"done", "raised"}) =>
        /\ pc # "raised"
        /\ PartialTail(data, 0) >= 0 =>
              out.rows = ScanStream(Subarray(data, 0, PartialTail(data, 0))).rows

\* a NUMBER record cut short at the tail makes the scan raise
C10_TruncatedNumberRaises ==
    /\ op = "biff" /\ pc = "raised"
    /\ PartialTail(data, 0) > 0
    /\ u16le(data, PartialTail(data, 0)) = REC_NUMBER

\* a LABELSST record cut short at the tail is not skipped: it writes a cell
\* into a row decoded before it
C10_TruncatedLabelWrites ==
    /\ op = "biff" /\ pc = "done"
    /\ PartialTail(data, 0) > 0
    /\ u16le(data, PartialTail(data, 0)) = REC_LABELSST
    /\ ScanStream(Subarray(data, 0, PartialTail(data, 0))).rows # <<>>
    /\ out.rows # ScanStream(Subarray(data, 0, PartialTail(data, 0))).rows
    /\ Len(out.rows) = Len(ScanStream(Subarray(data, 0, PartialTail(data, 0))).rows)

-----------------------------------------------------------------------------
(* readRawRows: the standard reader first, the record scan as fallback *)

\* parseBiffManual on a file: e.cfb tells what CFB.read and CFB.find do with
\* its bytes ("throws": CFB.read raises; "nostream": neither /Workbook nor
\* /Book is found, the function throws; "stream": d is the stream's content)
parseBiffManual(e, d) ==
    IF e.cfb = "stream" THEN ScanStream(d) ELSE BiffRaised

\* what the try block of readRawRows finds: e.read is "throws" when XLSX.read
\* raises, "nosheet" when the target sheet is missing, "noref" when it has no
\* '!ref', "empty" when sheet_to_json gives zero rows, "rows" otherwise
StandardHasRows(e) == e.read = "rows" /\ Len(e.grid) > 0

StandardResult(e) == [kind |-> "rows", rows |-> e.grid, sheets |-> e.names]

-----------------------------------------------------------------------------
(* Specification SpecRead: readRawRows over the outcomes of the two readers *)

\* the largest number of records of the Workbook stream of a file
MaxFileRecords == 2

ReadOutcomes == {"throws", "nosheet", "noref", "empty", "rows"}

ReadGrids == {
    << <<Str(<<"D","a","t","a">>), Str(<<"D","é","b","i","t","o">>)>> >>,
    << <<Str(<<"C","o","n","t","a",":"," ","1",".","1",".","0","1"," ","-"," ","C","a","i","x","a">>)>>, <<Num(45300 * 100), Num(100 * 100)>> >>}

FileStreams ==
    { Concat(rs) : rs \in UNION {[1..n -> BiffPool] : n \in 0..MaxFileRecords} }

\* the files: how each reader fares on the bytes
Files ==
    { [read |-> rd, grid |-> g, names |-> <<<<"P","l","a","n","1">>>>, cfb |-> c, bytes |-> d] :
        rd \in ReadOutcomes, g \in ReadGrids \cup {<<>>}, c \in {"throws", "nostream", "stream"},
        d \in FileStreams \cup {<<>>} }

\* a file names rows only when the standard reader gives them, and the bytes
\* of a Workbook stream only when it holds one
WellFormedFile(f) ==
    /\ (f.read = "rows") = (f.grid # <<>>)
    /\ f.cfb # "stream" => f.bytes = <<>>

\* lines 62-73: the standard reader gives rows, which are returned
ReadStandardRows ==
    /\ op = "read" /\ pc = "try"
    /\ env.read # "throws"
    /\ StandardHasRows(env)
    /\ out' = StandardResult(env)
    /\ pc' = "resolved"
    /\ UNCHANGED <<op, rows, curRow, nRead, config, cur, accounts, mappings, stmt,
                   data, biff, env>>

\* lines 62-76: the standard reader opens the file and finds no rows
ReadStandardEmpty ==
    /\ op = "read" /\ pc = "try"
    /\ env.read # "throws"
    /\ ~StandardHasRows(env)
    /\ pc' = "fallback"
    /\ UNCHANGED <<op, rows, curRow, nRead, config, cur, accounts, out, mappings, stmt,
                   data, biff, env>>

\* line 62: XLSX.read raises, control passes to the catch block
ReadStandardThrows ==
    /\ op = "read" /\ pc = "try"
    /\ env.read = "throws"
    /\ pc' = "catch"
    /\ UNCHANGED <<op, rows, curRow, nRead, config, cur, accounts, out, mappings, stmt,
                   data, biff, env>>

\* lines 77-80: parseBiffManual called inside the try block; what it throws
\* is caught by the catch block of the same statement
ReadFallbackInTry ==
    /\ op = "read" /\ pc = "fallback"
    /\ IF parseBiffManual(env, data).kind = "raised"
       THEN pc' = "catch" /\ out' = out
       ELSE pc' = "resolved" /\ out' = parseBiffManual(env, data)
    /\ UNCHANGED <<op, rows, curRow, nRead, config, cur, accounts, mappings, stmt,
                   data, biff, env>>

\* lines 82-86: parseBiffManual called in the catch block; what it throws
\* rejects the promise
ReadCatch ==
    /\ op = "read" /\ pc = "catch"
    /\ IF parseBiffManual(env, data).kind = "raised"
       THEN pc' = "rejected" /\ out' = BiffRaised
       ELSE pc' = "resolved" /\ out' = parseBiffManual(env, data)
    /\ UNCHANGED <<op, rows, curRow, nRead, config, cur, accounts, mappings, stmt,
                   data, biff, env>>

InitRead ==
    /\ op = "read" /\ pc = "try"
    /\ rows = <<>> /\ curRow = <<>> /\ nRead = 0
    /\ config = <<>>
    /\ cur = <<>> /\ accounts = <<>> /\ out = <<>>
    /\ mappings = <<>> /\ stmt = <<>>
    /\ env \in {f \in Files : WellFormedFile(f)}
    /\ data = env.bytes
    /\ biff = BiffStart

NextRead ==
    \/ ReadStandardRows \/ ReadStandardEmpty \/ ReadStandardThrows
    \/ ReadFallbackInTry \/ ReadCatch

SpecRead == InitRead /\ [][NextRead]_vars

\* the fallback path cannot read the bytes: no Workbook stream is located
FallbackUnreadable == env.cfb \in {"throws", "nostream"}

\* C9: readRawRows never raises for a merely-empty file: when the standard
\* path opens the file but the target sheet yields zero rows and the fallback
\* also yields no rows, it resolves with an empty row list; it rejects only
\* when the byte stream is unreadable by both paths.
C9_EmptyFileResolves ==
    (op = "read" /\ pc \in {"resolved", "rejected"}) =>
        /\ (env.read # "throws" /\ ~StandardHasRows(env)
              /\ (FallbackUnreadable \/ ScanStream(data).rows = <<>>))
           => (pc = "resolved" /\ out.rows = <<>>)
        /\ pc = "rejected" => (env.read = "throws" /\ FallbackUnreadable)

\* a workbook the standard path opens, whose sheet has zero rows and whose
\* bytes hold no Workbook stream, is rejected
C9_EmptyWorkbookRejected ==
    /\ op = "read" /\ pc = "rejected"
    /\ env.read = "empty"
    /\ env.cfb = "nostream"

-----------------------------------------------------------------------------
(* The account classifier: classifyAccountByCode of the ledger parser and
   classifyByCode of the chart-of-accounts importer *)

\* classifyByCode of the chart-of-accounts importer
classifyByCode(code) ==
    IF code = <<>> THEN "unknown"
    ELSE CASE code[1] = "1" -> "asset"
           [] code[1] = "2" ->
                 IF \/ StartsWith(code, <<"2",".","3">>)
                    \/ StartsWith(code, <<"2",".","4">>)
                    \/ StartsWith(code, <<"2",".","5">>)
                 THEN "equity" ELSE "liability"
           [] code[1] = "3" -> "revenue"
           [] code[1] = "4" -> "expense"
           [] code[1] = "5" -> "expense"
           [] code[1] = "6" -> "revenue"
           [] OTHER -> "unknown"

\* the entry parseWithColumns pushes for a row of a file without a type column
ChartEntry(code, name) ==
    [code |-> code, name |-> name, accountType |-> classifyByCode(code),
     targetField |-> <<>>, targetStatement |-> "ignore"]

-----------------------------------------------------------------------------
(* Specification SpecClassify: accounts opened by the ledger parser and
   entries read by the chart importer, over hierarchical codes *)

\* the largest number of classified records
MaxClassified == 2

\* codes with one-digit and two-digit leading segments, and second segments
\* inside and outside the equity range
ClassifyCodes == {
    <<"1",".","1",".","0","1">>, <<"1","0",".","1">>, <<"2",".","1",".","0","1">>, <<"2",".","3",".","0","1">>, <<"2",".","4">>, <<"2",".","5",".","1">>, <<"2",".","3","0",".","1">>, <<"2","1",".","1">>,
    <<"3",".","1">>, <<"4",".","1">>, <<"5",".","1">>, <<"6",".","1">>, <<"0",".","1">>, <<"7",".","1">>}

\* parseLedger opens an account for a header with the code
ClassifyLedgerAccount ==
    /\ op = "classify"
    /\ Len(accounts) + Len(out) < MaxClassified
    /\ \E code \in ClassifyCodes : accounts' = Append(accounts, NewAccount(code, <<"C","o","n","t","a">>))
    /\ UNCHANGED <<op, pc, rows, curRow, nRead, config, cur, out, mappings, stmt,
                   data, biff, env>>

\* parseWithColumns reads a row with a code it has not seen
ClassifyChartEntry ==
    /\ op = "classify"
    /\ Len(accounts) + Len(out) < MaxClassified
    /\ \E code \in ClassifyCodes :
          /\ \A k \in 1..Len(out) : out[k].code # code
          /\ out' = Append(out, ChartEntry(code, <<"C","o","n","t","a">>))
    /\ UNCHANGED <<op, pc, rows, curRow, nRead, config, cur, accounts, mappings, stmt,
                   data, biff, env>>

InitClassify ==
    /\ op = "classify" /\ pc = "run"
    /\ rows = <<>> /\ curRow = <<>> /\ nRead = 0
    /\ config = <<>>
    /\ cur = <<>> /\ accounts = <<>> /\ out = <<>>
    /\ mappings = <<>> /\ stmt = <<>>
    /\ data = <<>>
    /\ biff = <<>>
    /\ env = <<>>

NextClassify == ClassifyLedgerAccount \/ ClassifyChartEntry

SpecClassify == InitClassify /\ [][NextClassify]_vars

\* the value of the leading segment of a code, and of the segment after it
\* (-1 when the code has one segment only)
LeadingSegment(code) == DigitsVal(code, 1, DigitRun(code, 1))

SecondSegment(code) ==
    IF DigitRun(code, 1) < Len(code) /\ DigitRun(code, DigitRun(code, 1) + 2) > 0
    THEN DigitsVal(code, DigitRun(code, 1) + 2,
                   DigitRun(code, 1) + 1 + DigitRun(code, DigitRun(code, 1) + 2))
    ELSE -1

\* the nature the leading segments stand for
NatureOfSegments(lead, second) ==
    CASE lead = 1 -> "asset"
      [] lead = 2 -> IF second \in {3, 4, 5} THEN "equity" ELSE "liability"
      [] lead \in {3, 6} -> "revenue"
      [] lead \in {4, 5} -> "expense"
      [] OTHER -> "unknown"

\* C11: account classification is a function of the code's leading
\* hierarchical segments: leading segment 1 gives asset; 2 gives liability
\* except 2.3, 2.4 and 2.5, which give equity; 3 or 6 gives revenue; 4 or 5
\* gives expense; every other leading segment (0, 7, 10, 21) gives unknown.
C11_NatureByLeadingSegment ==
    op = "classify" =>
        /\ \A k \in 1..Len(accounts) :
              accounts[k].accountType =
                  NatureOfSegments(LeadingSegment(accounts[k].code),
                                   SecondSegment(accounts[k].code))
        /\ \A k \in 1..Len(out) :
              out[k].accountType =
                  NatureOfSegments(LeadingSegment(out[k].code), SecondSegment(out[k].code))

\* an account whose leading segment is 10 is classified as an asset, and a
\* chart entry whose leading segment is 21 as a liability
C11_TwoDigitSegmentByFirstDigit ==
    /\ op = "classify"
    /\ Len(accounts) = 1 /\ LeadingSegment(accounts[1].code) = 10
    /\ accounts[1].accountType = "asset"
    /\ Len(out) = 1 /\ LeadingSegment(out[1].code) = 21
    /\ out[1].accountType = "liability"

-----------------------------------------------------------------------------
(* Specification SpecAutoMap: autoMapAccounts over lists of accounts, with
   repeated codes and accounts that match no rule *)

\* the largest number of accounts handed to the auto-mapper
MaxMapped == 3

\* accounts for income-statement and balance-sheet rules, two that match no
\* rule, and two whose name points at the other statement than their code
AutoMapPool == {
    NewAccount(<<"3",".","1",".","0","1">>, <<"R","e","c","e","i","t","a"," ","d","e"," ","V","e","n","d","a","s">>),
    NewAccount(<<"3",".","2",".","0","1">>, <<"D","e","d","u","ç","õ","e","s"," ","I","C","M","S">>),
    NewAccount(<<"4",".","1",".","0","1">>, <<"C","u","s","t","o"," ","d","a","s"," ","M","e","r","c","a","d","o","r","i","a","s">>),
    NewAccount(<<"1",".","1",".","0","1">>, <<"C","a","i","x","a">>),
    NewAccount(<<"2",".","1",".","0","1">>, <<"F","o","r","n","e","c","e","d","o","r","e","s">>),
    NewAccount(<<"7",".","1",".","0","1">>, <<"C","o","n","t","a","s"," ","d","e"," ","C","o","m","p","e","n","s","a","ç","ã","o">>),
    NewAccount(<<"1",".","1",".","0","1">>, <<"B","a","n","c","o","s">>),
    NewAccount(<<"5",".","1",".","0","1">>, <<"O","u","t","r","a","s">>),
    NewAccount(<<"1",".","1",".","0","5">>, <<"C","u","s","t","o","s"," ","a"," ","A","p","r","o","p","r","i","a","r">>),
    NewAccount(<<"5",".","1",".","0","2">>, <<"C","a","i","x","a">>)}

\* one more account in the list handed to autoMapAccounts
AutoMapEmit ==
    /\ op = "automap" /\ pc = "accounts"
    /\ Len(accounts) < MaxMapped
    /\ \E acc \in AutoMapPool : accounts' = Append(accounts, acc)
    /\ UNCHANGED <<op, pc, rows, curRow, nRead, config, cur, out, mappings, stmt,
                   data, biff, env>>

\* autoMapAccounts(accounts)
AutoMapRun ==
    /\ op = "automap" /\ pc = "accounts"
    /\ mappings' = autoMapAccounts(accounts)
    /\ pc' = "mapped"
    /\ UNCHANGED <<op, rows, curRow, nRead, config, cur, accounts, out, stmt,
                   data, biff, env>>

InitAutoMap ==
    /\ op = "automap" /\ pc = "accounts"
    /\ rows = <<>> /\ curRow = <<>> /\ nRead = 0
    /\ config = <<>>
    /\ cur = <<>> /\ accounts = <<>> /\ out = <<>>
    /\ mappings = <<>> /\ stmt = <<>>
    /\ data = <<>>
    /\ biff = <<>>
    /\ env = <<>>

NextAutoMap == AutoMapEmit \/ AutoMapRun

SpecAutoMap == InitAutoMap /\ [][NextAutoMap]_vars

\* C12: autoMapAccounts returns exactly one mapping per input account, in
\* input order, the i-th mapping carrying the i-th account's code and name,
\* for every input list, with repeated codes or accounts that match no rule.
C12_OneMappingPerAccount ==
    (op = "automap" /\ pc = "mapped") =>
        /\ Len(mappings) = Len(accounts)
        /\ \A k \in 1..Len(accounts) :
              /\ mappings[k].accountCode = accounts[k].code
              /\ mappings[k].accountName = accounts[k].name

\* three accounts were mapped, two of them sharing a code and one matching no
\* rule
C12_RepeatedAndUnmatched ==
    /\ op = "automap" /\ pc = "mapped"
    /\ Len(accounts) = 3 /\ Len(mappings) = 3
    /\ accounts[1].code = accounts[3].code /\ accounts[1].name # accounts[3].name
    /\ mappings[2].targetField = ""

\* C13: every mapping produced by autoMapAccounts has autoDetected = true,
\* including the mappings of accounts that match no rule and are assigned to
\* 'ignore'.
C13_AllAutoDetected ==
    (op = "automap" /\ pc = "mapped") =>
        \A k \in 1..Len(mappings) : mappings[k].autoDetected

\* an account that matches no rule was mapped to 'ignore' with the flag unset
C13_IgnoredNotFlagged ==
    /\ op = "automap" /\ pc = "mapped"
    /\ \E k \in 1..Len(mappings) :
          /\ mappings[k].targetStatement = "ignore"
          /\ ~mappings[k].autoDetected

-----------------------------------------------------------------------------
(* The mapping step of the import wizard: updateMapping *)

\* the statement updateMapping sets together with a new target field
UpdatedStatement(newField) ==
    IF newField \in DRE_TARGET_FIELDS THEN "income_statement"
    ELSE IF newField \in BALANCE_TARGET_FIELDS THEN "balance_sheet"
    ELSE "ignore"

\* what updateMapping makes of one mapping with the account code
UpdatedMapping(m, field, value) ==
    IF field = "targetField"
    THEN [m EXCEPT !.targetField = value, !.targetStatement = UpdatedStatement(value),
                   !.autoDetected = FALSE]
    ELSE [m EXCEPT ![field] = value, !.autoDetected = FALSE]

\* updateMapping leaving the flag of the mapping as it was
updateMapping_KeepFlag(prev, accountCode, field, value) ==
    [k \in 1..Len(prev) |->
        IF prev[k].accountCode # accountCode THEN prev[k]
        ELSE [UpdatedMapping(prev[k], field, value) EXCEPT
                 !.autoDetected = prev[k].autoDetected]]

\* updateMapping: prev.map over the mappings of the wizard
updateMapping(prev, accountCode, field, value) ==
    [k \in 1..Len(prev) |->
        IF prev[k].accountCode # accountCode THEN prev[k]
        ELSE UpdatedMapping(prev[k], field, value)]

-----------------------------------------------------------------------------
(* Specification SpecOverride: user overrides on the auto-mapper's output *)

\* the largest number of accounts of the ledger under review
MaxOverridden == 2

\* an income-statement account, a balance-sheet account and one that matches
\* no rule
OverridePool == {
    NewAccount(<<"3",".","1",".","0","1">>, <<"R","e","c","e","i","t","a"," ","d","e"," ","V","e","n","d","a","s">>),
    NewAccount(<<"1",".","1",".","0","1">>, <<"C","a","i","x","a">>),
    NewAccount(<<"7",".","1",".","0","1">>, <<"C","o","n","t","a","s"," ","d","e"," ","C","o","m","p","e","n","s","a","ç","ã","o">>)}

\* the ledgers of the wizard: parseLedger returns each code once
OverrideLedgers ==
    { accs \in UNION {[1..n -> OverridePool] : n \in 1..MaxOverridden} :
        \A i, j \in 1..Len(accs) : i # j => accs[i].code # accs[j].code }

\* the fields the select offers ('' for "ignore"), and one that is on no list
OverrideFields == {"", "cogs", "equity", "netIncome"}

\* updateMapping(code, 'targetField', value)
OverrideField ==
    /\ op = "override"
    /\ \E k \in 1..Len(mappings), value \in OverrideFields :
          /\ mappings' = updateMapping(mappings, mappings[k].accountCode, "targetField", value)
          /\ cur' = cur \cup {mappings[k].accountCode}
    /\ UNCHANGED <<op, pc, rows, curRow, nRead, config, accounts, out, stmt,
                   data, biff, env>>

\* updateMapping(code, 'sign', value)
OverrideSign ==
    /\ op = "override"
    /\ \E k \in 1..Len(mappings), value \in {1, -1} :
          /\ mappings' = updateMapping(mappings, mappings[k].accountCode, "sign", value)
          /\ cur' = cur \cup {mappings[k].accountCode}
    /\ UNCHANGED <<op, pc, rows, curRow, nRead, config, accounts, out, stmt,
                   data, biff, env>>

\* the wizard after the ledger was parsed: the mappings are the auto-mapper's
\* output, kept in out as well, and no override has been made
InitOverride ==
    /\ op = "override" /\ pc = "mapping"
    /\ rows = <<>> /\ curRow = <<>> /\ nRead = 0
    /\ config = <<>>
    /\ cur = {}
    /\ accounts \in OverrideLedgers
    /\ out = autoMapAccounts(accounts)
    /\ mappings = autoMapAccounts(accounts)
    /\ stmt = <<>>
    /\ data = <<>>
    /\ biff = <<>>
    /\ env = <<>>

NextOverride == OverrideField \/ OverrideSign

SpecOverride == InitOverride /\ [][NextOverride]_vars

\* C14: after any sequence of user overrides applied to the auto-mapper's
\* output, every mapping that was overridden (by field or sign) has
\* autoDetected = false, every mapping never overridden keeps its field,
\* statement, sign and flag, and an override of the target field sets
\* targetStatement in the same step to income_statement, balance_sheet or
\* ignore according to the list the new field belongs to.
C14_OverridesClearFlag ==
    op = "override" =>
        /\ Len(mappings) = Len(out)
        /\ \A k \in 1..Len(mappings) :
              /\ mappings[k].accountCode = out[k].accountCode
              /\ mappings[k].accountCode \in cur => ~mappings[k].autoDetected
              /\ mappings[k].accountCode \notin cur => mappings[k] = out[k]
              /\ mappings[k].targetStatement =
                    (IF mappings[k].targetField \in DRE_TARGET_FIELDS THEN "income_statement"
                     ELSE IF mappings[k].targetField \in BALANCE_TARGET_FIELDS
                          THEN "balance_sheet"
                     ELSE "ignore")

\* one mapping was moved from the income statement to the balance sheet while
\* the other, never overridden, still carries the auto-mapper's flag
C14_OneOverriddenOneKept ==
    /\ op = "override"
    /\ Len(mappings) = 2
    /\ mappings[1].accountCode \in cur /\ mappings[2].accountCode \notin cur
    /\ out[1].targetStatement = "income_statement"
    /\ mappings[1].targetStatement = "balance_sheet" /\ mappings[1].targetField = "equity"
    /\ mappings[2].autoDetected

-----------------------------------------------------------------------------
(* razao-aggregator.ts: the balance sheet, the monthly statements and the
   annual rollups. A ledger is a record of accounts, periodStart and
   periodEnd (<<>> for null); a statement carries its period. *)

Abs(x) == IF x < 0 THEN -x ELSE x

\* computeBalanceSheetValue as if the closing balance were always informed
computeBalanceSheetValue_ClosingOnly(account) ==
    IF account.accountType = "asset" THEN account.closingBalance
    ELSE Abs(account.closingBalance)

\* computeBalanceSheetValue
computeBalanceSheetValue(account) ==
    CASE account.accountType = "asset" ->
            IF account.closingBalance # 0 THEN account.closingBalance
            ELSE account.openingBalance + account.totalDebits - account.totalCredits
      [] account.accountType \in {"liability", "equity"} ->
            IF account.closingBalance # 0 THEN Abs(account.closingBalance)
            ELSE account.openingBalance + account.totalCredits - account.totalDebits
      [] OTHER -> Abs(account.closingBalance)

\* the accumulators of the balance-sheet aggregators
BalanceZeroValues == [f \in BALANCE_TARGET_FIELDS |-> 0]

\* values[field] += amount; a field outside the accumulators is stored under
\* a key the statement never reads
AddAmount(values, field, amount) ==
    IF field \in DOMAIN values THEN [values EXCEPT ![field] = @ + amount] ELSE values

\* the loop of aggregateToBalanceSheet over the mappings
RECURSIVE AccumulateBalance(_, _, _)
AccumulateBalanceAt(values, accs, maps, at) ==
    IF at = 0 THEN AccumulateBalance(values, accs, Tail(maps))
    ELSE AccumulateBalance(
             AddAmount(values, maps[1].targetField,
                       computeBalanceSheetValue(accs[at]) * maps[1].sign),
             accs, Tail(maps))

AccumulateBalance(values, accs, maps) ==
    IF maps = <<>> THEN values
    ELSE IF maps[1].targetStatement # "balance_sheet" \/ maps[1].targetField = ""
    THEN AccumulateBalance(values, accs, Tail(maps))
    ELSE AccumulateBalanceAt(values, accs, maps, FindAccount(accs, maps[1].accountCode, 1))

\* the BalanceSheet assembled from the accumulators
BalanceSheetOf(v, period) ==
    [period |-> period,
     operatingCash |-> v.operatingCash, nonOperatingCash |-> v.nonOperatingCash,
     accountsReceivable |-> v.accountsReceivable, inventory |-> v.inventory,
     otherCurrentAssets |-> v.otherCurrentAssets, ppe |-> v.ppe,
     intangibles |-> v.intangibles, otherNonCurrentAssets |-> v.otherNonCurrentAssets,
     totalAssets |-> v.operatingCash + v.nonOperatingCash + v.accountsReceivable
                     + v.inventory + v.otherCurrentAssets + v.ppe + v.intangibles
                     + v.otherNonCurrentAssets,
     accountsPayable |-> v.accountsPayable,
     otherOperatingLiabilities |-> v.otherOperatingLiabilities,
     shortTermDebt |-> v.shortTermDebt, longTermDebt |-> v.longTermDebt,
     otherNonCurrentLiabilities |-> v.otherNonCurrentLiabilities,
     totalLiabilities |-> v.accountsPayable + v.otherOperatingLiabilities
                          + v.shortTermDebt + v.longTermDebt
                          + v.otherNonCurrentLiabilities,
     equity |-> v.equity]

\* parseInt of a text that starts with digits
ParseInt(s) == DigitsVal(s, 1, DigitRun(s, 1))

\* the period of the single-period statements; the year is that of periodEnd
\* (the current year, written 0, when the ledger has none), and the dates are
\* the ledger's, a null one standing for the first or last day of that year
WholePeriod(ledger) ==
    [year      |-> IF ledger.periodEnd # <<>> THEN ParseInt(ledger.periodEnd) ELSE 0,
     month     |-> 0,
     startDate |-> ledger.periodStart,
     endDate   |-> ledger.periodEnd]

\* aggregateToBalanceSheet
aggregateToBalanceSheet(ledger, maps) ==
    BalanceSheetOf(AccumulateBalance(BalanceZeroValues, ledger.accounts, maps),
                   WholePeriod(ledger))

\* the dates of the entries of the accounts that allMonthsInRange collects
RECURSIVE EntryDates(_)
EntryDates(accs) ==
    IF accs = <<>> THEN {}
    ELSE {accs[1].entries[k].date : k \in {j \in 1..Len(accs[1].entries) :
                                              Len(accs[1].entries[j].date) >= 7}}
         \cup EntryDates(Tail(accs))

\* dates.sort()[0] and dates.sort()[dates.length - 1]
FirstDate(dates) == CHOOSE d \in dates : \A e \in dates : DateLeq(d, e)

LastDate(dates) == CHOOSE d \in dates : \A e \in dates : DateLeq(e, d)

\* `${y}-${String(m).padStart(2, '0')}`
YearMonth(y, m) == NatToStr(y) \o <<"-">> \o Pad2(NatToStr(m))

\* the while loop of allMonthsInRange
RECURSIVE MonthsFrom(_, _, _, _)
MonthsFrom(y, m, endYear, endMonth) ==
    IF y < endYear \/ (y = endYear /\ m <= endMonth)
    THEN <<YearMonth(y, m)>>
         \o MonthsFrom(IF m + 1 > 12 THEN y + 1 ELSE y, IF m + 1 > 12 THEN 1 ELSE m + 1,
                       endYear, endMonth)
    ELSE <<>>

\* the months between two dates
MonthsBetween(start, end) ==
    MonthsFrom(ParseInt(Sub(start, 1, 4)), ParseInt(Sub(start, 6, 7)),
               ParseInt(Sub(end, 1, 4)), ParseInt(Sub(end, 6, 7)))

\* allMonthsInRange with the dates collected from the entries
MonthsOfDates(ledger, dates) ==
    IF dates = {} THEN <<>>
    ELSE MonthsBetween(IF ledger.periodStart = <<>> THEN FirstDate(dates)
                       ELSE ledger.periodStart,
                       IF ledger.periodEnd = <<>> THEN LastDate(dates)
                       ELSE ledger.periodEnd)

\* allMonthsInRange
allMonthsInRange(ledger) ==
    IF ledger.periodStart = <<>> \/ ledger.periodEnd = <<>>
    THEN MonthsOfDates(ledger, EntryDates(ledger.accounts))
    ELSE MonthsBetween(ledger.periodStart, ledger.periodEnd)

\* new Date(year, month, 0).getDate(): the number of days of the month
LastDay(year, month) ==
    IF month \in {4, 6, 9, 11} THEN 30
    ELSE IF month # 2 THEN 31
    ELSE IF (year % 4 = 0 /\ year % 100 # 0) \/ year % 400 = 0 THEN 29
    ELSE 28

\* the StatementPeriod of a month: year and month are parsed back from ym
MonthPeriodOf(ym, year, month) ==
    [year      |-> year,
     month     |-> month,
     startDate |-> ym \o <<"-","0","1">>,
     endDate   |-> ym \o <<"-">> \o Pad2(NatToStr(LastDay(year, month)))]

MonthPeriod(ym) ==
    MonthPeriodOf(ym, ParseInt(ym), ParseInt(Sub(ym, DigitRun(ym, 1) + 2, Len(ym))))

\* the entries of a month taken to be all the entries of the account
MonthEntries_All(account, ym) == account.entries

\* account.entries.filter((e) => e.date.startsWith(ym))
MonthEntries(account, ym) == SelectSeq(account.entries, LAMBDA e : StartsWith(e.date, ym))

\* the movement of a month with every account taken as of debit nature
MonthMovement_DebitNature(account, ym) ==
    SumField(MonthEntries(account, ym), "debit") - SumField(MonthEntries(account, ym), "credit")

\* the net movement of the entries of a month
MonthMovementOf(account, monthEntries) ==
    IF account.accountType = "revenue"
    THEN SumField(monthEntries, "credit") - SumField(monthEntries, "debit")
    ELSE SumField(monthEntries, "debit") - SumField(monthEntries, "credit")

MonthMovement(account, ym) == MonthMovementOf(account, MonthEntries(account, ym))

\* the loop of aggregateToMonthlyIncomeStatements over dreMappings
RECURSIVE AccumulateMonthIncome(_, _, _, _)
AccumulateMonthIncomeAt(values, accs, maps, ym, at) ==
    IF at = 0 THEN AccumulateMonthIncome(values, accs, Tail(maps), ym)
    ELSE AccumulateMonthIncome(
             AddAmount(values, maps[1].targetField,
                       MonthMovement(accs[at], ym) * maps[1].sign),
             accs, Tail(maps), ym)

AccumulateMonthIncome(values, accs, maps, ym) ==
    IF maps = <<>> THEN values
    ELSE AccumulateMonthIncomeAt(values, accs, maps, ym,
                                 FindAccount(accs, maps[1].accountCode, 1))

\* an IncomeStatement with its period
IncomeStatementOf(v, period) == [f \in {"period"} |-> period] @@ StatementOf(v)

\* mappings.filter((m) => m.targetStatement === statement && m.targetField)
MappingsFor(maps, statement) ==
    SelectSeq(maps, LAMBDA m : m.targetStatement = statement /\ m.targetField # "")

\* months.map(...) of aggregateToMonthlyIncomeStatements
MonthlyIncomeOf(ledger, dreMappings, months) ==
    [k \in 1..Len(months) |->
        IncomeStatementOf(
            AccumulateMonthIncome(ZeroValues, ledger.accounts, dreMappings, months[k]),
            MonthPeriod(months[k]))]

\* aggregateToMonthlyIncomeStatements
aggregateToMonthlyIncomeStatements(ledger, maps) ==
    MonthlyIncomeOf(ledger, MappingsFor(maps, "income_statement"), allMonthsInRange(ledger))

\* account.entries.filter((e) => e.date <= endDate)
EntriesUpTo(account, endDate) == SelectSeq(account.entries, LAMBDA e : DateLeq(e.date, endDate))

\* the cumulative balance of an account at the end of a month
BalanceUpToOf(account, entriesUpToMonth) ==
    IF account.accountType = "asset"
    THEN account.openingBalance + SumField(entriesUpToMonth, "debit")
         - SumField(entriesUpToMonth, "credit")
    ELSE Abs(account.openingBalance) + SumField(entriesUpToMonth, "credit")
         - SumField(entriesUpToMonth, "debit")

BalanceUpTo(account, endDate) == BalanceUpToOf(account, EntriesUpTo(account, endDate))

\* the loop of aggregateToMonthlyBalanceSheets over bsMappings
RECURSIVE AccumulateMonthBalance(_, _, _, _)
AccumulateMonthBalanceAt(values, accs, maps, endDate, at) ==
    IF at = 0 THEN AccumulateMonthBalance(values, accs, Tail(maps), endDate)
    ELSE AccumulateMonthBalance(
             AddAmount(values, maps[1].targetField,
                       BalanceUpTo(accs[at], endDate) * maps[1].sign),
             accs, Tail(maps), endDate)

AccumulateMonthBalance(values, accs, maps, endDate) ==
    IF maps = <<>> THEN values
    ELSE AccumulateMonthBalanceAt(values, accs, maps, endDate,
                                  FindAccount(accs, maps[1].accountCode, 1))

\* months.map(...) of aggregateToMonthlyBalanceSheets
MonthlyBalanceOf(ledger, bsMappings, months) ==
    [k \in 1..Len(months) |->
        BalanceSheetOf(
            AccumulateMonthBalance(BalanceZeroValues, ledger.accounts, bsMappings,
                                   MonthPeriod(months[k]).endDate),
            MonthPeriod(months[k]))]

\* aggregateToMonthlyBalanceSheets
aggregateToMonthlyBalanceSheets(ledger, maps) ==
    MonthlyBalanceOf(ledger, MappingsFor(maps, "balance_sheet"), allMonthsInRange(ledger))

\* the elements of a set of numbers in ascending order
RECURSIVE Ascending(_)
Ascending(S) ==
    IF S = {} THEN <<>>
    ELSE <<CHOOSE x \in S : \A y \in S : x <= y>>
         \o Ascending(S \ {CHOOSE x \in S : \A y \in S : x <= y})

\* the years of a list of statements, ascending
YearsOf(monthly) == Ascending({monthly[k].period.year : k \in 1..Len(monthly)})

\* the period of an annual statement
AnnualPeriod(year) ==
    [year      |-> year,
     month     |-> 0,
     startDate |-> NatToStr(year) \o <<"-","0","1","-","0","1">>,
     endDate   |-> NatToStr(year) \o <<"-","1","2","-","3","1">>]

\* byYear.get(year): the statements of a year, in the order of the list
MonthsOfYear(monthly, year) == SelectSeq(monthly, LAMBDA m : m.period.year = year)

\* the annual statement of the months of a year
AnnualIncomeOf(months, year) ==
    IncomeStatementOf([f \in DRE_TARGET_FIELDS |-> SumField(months, f)], AnnualPeriod(year))

\* the annual rollup taking the first month of each year for the whole year
aggregateMonthlyToAnnual_FirstMonth(monthly) ==
    [k \in 1..Len(YearsOf(monthly)) |->
        AnnualIncomeOf(Sub(MonthsOfYear(monthly, YearsOf(monthly)[k]), 1, 1),
                       YearsOf(monthly)[k])]

\* aggregateMonthlyToAnnual
aggregateMonthlyToAnnual(monthly) ==
    [k \in 1..Len(YearsOf(monthly)) |->
        AnnualIncomeOf(MonthsOfYear(monthly, YearsOf(monthly)[k]), YearsOf(monthly)[k])]

\* [...monthly].sort by period.startDate: a stable sort
InsertByStart(sorted, bs) ==
    SelectSeq(sorted, LAMBDA s : DateLeq(s.period.startDate, bs.period.startDate))
    \o <<bs>>
    \o SelectSeq(sorted, LAMBDA s : ~DateLeq(s.period.startDate, bs.period.startDate))

RECURSIVE SortByStart(_)
SortByStart(monthly) ==
    IF monthly = <<>> THEN <<>>
    ELSE InsertByStart(SortByStart(Sub(monthly, 1, Len(monthly) - 1)), monthly[Len(monthly)])

\* byYear.get(year) after the loop: the last sheet of the year in sorted order
LastOfYear(sorted, year) ==
    MonthsOfYear(sorted, year)[Len(MonthsOfYear(sorted, year))]

\* the rollup of sheets already sorted
AnnualBalanceOf(sorted) ==
    [k \in 1..Len(YearsOf(sorted)) |->
        [LastOfYear(sorted, YearsOf(sorted)[k]) EXCEPT
            !.period = AnnualPeriod(YearsOf(sorted)[k])]]

\* the rollup without the sort: the last sheet of each year in input order
aggregateMonthlyBsToAnnual_InputOrder(monthly) == AnnualBalanceOf(monthly)

\* aggregateMonthlyBsToAnnual
aggregateMonthlyBsToAnnual(monthly) == AnnualBalanceOf(SortByStart(monthly))

-----------------------------------------------------------------------------
(* Specification SpecAggregate: the aggregators on parsed ledgers and on
   mapping lists derived from the auto-mapper's output *)

\* the largest number of accounts of a ledger
MaxLedgerAccounts == 2

\* a revenue and an expense account with entries in two years, an asset
\* account with its closing balance informed and one without, a liability
\* stored as a negative balance, and an equity account without closing balance
AggregatePool == {
    DedupAccount(<<"3",".","1",".","0","1">>, <<"R","e","c","e","i","t","a"," ","d","e"," ","V","e","n","d","a","s">>,
                 <<DedupEntry(<<"2","0","2","3","-","1","1","-","1","0">>, 0, 100 * 100, 0),
                   DedupEntry(<<"2","0","2","4","-","0","1","-","1","5">>, 50 * 100, 200 * 100, 0)>>,
                 0, 0, 50 * 100, 300 * 100),
    DedupAccount(<<"4",".","1",".","0","1">>, <<"C","u","s","t","o"," ","d","a","s"," ","M","e","r","c","a","d","o","r","i","a","s">>,
                 <<DedupEntry(<<"2","0","2","3","-","1","1","-","2","0">>, 40 * 100, 0, 0),
                   DedupEntry(<<"2","0","2","4","-","0","1","-","2","0">>, 60 * 100, 0, 0)>>,
                 0, 0, 100 * 100, 0),
    DedupAccount(<<"1",".","1",".","0","1">>, <<"C","a","i","x","a">>,
                 <<DedupEntry(<<"2","0","2","3","-","1","1","-","1","0">>, 100 * 100, 0, 1100 * 100),
                   DedupEntry(<<"2","0","2","4","-","0","1","-","2","0">>, 0, 60 * 100, 1040 * 100)>>,
                 1000 * 100, 1040 * 100, 100 * 100, 60 * 100),
    DedupAccount(<<"1",".","1",".","0","2">>, <<"B","a","n","c","o","s">>,
                 <<DedupEntry(<<"2","0","2","3","-","1","1","-","1","2">>, 30 * 100, 0, 0),
                   DedupEntry(<<"2","0","2","4","-","0","1","-","1","2">>, 0, 10 * 100, 0)>>,
                 500 * 100, 0, 30 * 100, 10 * 100),
    DedupAccount(<<"2",".","1",".","0","1">>, <<"F","o","r","n","e","c","e","d","o","r","e","s">>,
                 <<DedupEntry(<<"2","0","2","4","-","0","1","-","0","5">>, 0, 100 * 100, -900 * 100)>>,
                 -800 * 100, -900 * 100, 0, 100 * 100),
    DedupAccount(<<"2",".","3",".","0","1">>, <<"C","a","p","i","t","a","l"," ","S","o","c","i","a","l">>,
                 <<DedupEntry(<<"2","0","2","3","-","1","1","-","0","1">>, 0, 5000 * 100, 0)>>,
                 0, 0, 0, 5000 * 100)}

\* the periods of the header: four months over a year end, no period, two
\* full years, one month
AggregatePeriods == {
    [periodStart |-> <<"2","0","2","3","-","1","1","-","0","1">>, periodEnd |-> <<"2","0","2","4","-","0","3","-","3","1">>],
    [periodStart |-> <<>>, periodEnd |-> <<>>],
    [periodStart |-> <<"2","0","2","3","-","0","1","-","0","1">>, periodEnd |-> <<"2","0","2","4","-","1","2","-","3","1">>],
    [periodStart |-> <<"2","0","2","4","-","0","1","-","0","1">>, periodEnd |-> <<"2","0","2","4","-","0","1","-","3","1">>]}

\* the ledgers: parseLedger returns each code once
AggregateLedgers ==
    { [accounts |-> accs, periodStart |-> p.periodStart, periodEnd |-> p.periodEnd] :
        accs \in { a \in UNION {[1..n -> AggregatePool] : n \in 1..MaxLedgerAccounts} :
                     \A i, j \in 1..Len(a) : i # j => a[i].code # a[j].code },
        p \in AggregatePeriods }

\* a mapping whose account code is in no ledger
OrphanMapping(targetField, targetStatement) ==
    [accountCode |-> <<"9",".","9",".","9","9">>, accountName |-> <<"C","o","n","t","a"," ","r","e","m","o","v","i","d","a">>,
     targetField |-> targetField, targetStatement |-> targetStatement, sign |-> 1,
     autoDetected |-> FALSE]

\* the mapping lists of a ledger: the auto-mapper's output, as it is, with
\* mappings of an absent account, without the first account's mapping, without
\* it and with mappings of an absent account, with its sign or its field
\* overridden
AggregateMappings(accs) == {
    autoMapAccounts(accs),
    <<OrphanMapping("grossRevenue", "income_statement")>> \o autoMapAccounts(accs)
        \o <<OrphanMapping("operatingCash", "balance_sheet")>>,
    Tail(autoMapAccounts(accs)),
    <<OrphanMapping("cogs", "income_statement")>> \o Tail(autoMapAccounts(accs))
        \o <<OrphanMapping("accountsPayable", "balance_sheet")>>,
    updateMapping(autoMapAccounts(accs), accs[1].code, "sign", -1),
    updateMapping(autoMapAccounts(accs), accs[1].code, "targetField", "otherOperating")}

\* the orders in which a list of monthly statements reaches a rollup
Reordered(list) == {
    list,
    [k \in 1..Len(list) |-> list[Len(list) + 1 - k]],
    Sub(list, 2, Len(list)) \o Sub(list, 1, 1)}

\* aggregateToIncomeStatement(ledger, mappings)
AggregateIncome ==
    /\ op = "aggregate" /\ pc = "ledger"
    /\ stmt' = <<[f \in {"period"} |-> WholePeriod(out)]
                  @@ aggregateToIncomeStatement(out.accounts, mappings)>>
    /\ pc' = "income"
    /\ UNCHANGED <<op, rows, curRow, nRead, config, cur, accounts, out, mappings,
                   data, biff, env>>

\* aggregateToBalanceSheet(ledger, mappings)
AggregateBalance ==
    /\ op = "aggregate" /\ pc = "ledger"
    /\ stmt' = <<aggregateToBalanceSheet(out, mappings)>>
    /\ pc' = "balance"
    /\ UNCHANGED <<op, rows, curRow, nRead, config, cur, accounts, out, mappings,
                   data, biff, env>>

\* aggregateToMonthlyIncomeStatements(ledger, mappings)
AggregateMonthlyIncome ==
    /\ op = "aggregate" /\ pc = "ledger"
    /\ stmt' = aggregateToMonthlyIncomeStatements(out, mappings)
    /\ pc' = "monthlyIncome"
    /\ UNCHANGED <<op, rows, curRow, nRead, config, cur, accounts, out, mappings,
                   data, biff, env>>

\* aggregateToMonthlyBalanceSheets(ledger, mappings)
AggregateMonthlyBalance ==
    /\ op = "aggregate" /\ pc = "ledger"
    /\ stmt' = aggregateToMonthlyBalanceSheets(out, mappings)
    /\ pc' = "monthlyBalance"
    /\ UNCHANGED <<op, rows, curRow, nRead, config, cur, accounts, out, mappings,
                   data, biff, env>>

\* aggregateMonthlyToAnnual on the monthly statements, in some order
RollupIncome ==
    /\ op = "aggregate" /\ pc = "monthlyIncome"
    /\ \E list \in Reordered(stmt) :
          /\ cur' = list
          /\ stmt' = aggregateMonthlyToAnnual(list)
    /\ pc' = "annualIncome"
    /\ UNCHANGED <<op, rows, curRow, nRead, config, accounts, out, mappings,
                   data, biff, env>>

\* aggregateMonthlyBsToAnnual on the monthly sheets, in some order
RollupBalance ==
    /\ op = "aggregate" /\ pc = "monthlyBalance"
    /\ \E list \in Reordered(stmt) :
          /\ cur' = list
          /\ stmt' = aggregateMonthlyBsToAnnual(list)
    /\ pc' = "annualBalance"
    /\ UNCHANGED <<op, rows, curRow, nRead, config, accounts, out, mappings,
                   data, biff, env>>

InitAggregate ==
    /\ op = "aggregate" /\ pc = "ledger"
    /\ rows = <<>> /\ curRow = <<>> /\ nRead = 0
    /\ config = <<>>
    /\ cur = <<>> /\ accounts = <<>>
    /\ out \in AggregateLedgers
    /\ mappings \in AggregateMappings(out.accounts)
    /\ stmt = <<>>
    /\ data = <<>>
    /\ biff = <<>>
    /\ env = <<>>

NextAggregate ==
    \/ AggregateIncome \/ AggregateBalance
    \/ AggregateMonthlyIncome \/ AggregateMonthlyBalance
    \/ RollupIncome \/ RollupBalance

SpecAggregate == InitAggregate /\ [][NextAggregate]_vars

\* the three identities of an IncomeStatement
IncomeIdentities(s) ==
    /\ s.netRevenue = s.grossRevenue - s.deductions
    /\ s.grossProfit = s.netRevenue - s.cogs
    /\ s.ebit = s.grossProfit - s.sgaExpenses - s.depreciation + s.otherOperating

\* C15: every IncomeStatement produced by aggregateToIncomeStatement,
\* aggregateToMonthlyIncomeStatements and aggregateMonthlyToAnnual satisfies
\* netRevenue = grossRevenue - deductions, grossProfit = netRevenue - cogs and
\* ebit = grossProfit - sgaExpenses - depreciation + otherOperating.
C15_IncomeIdentities ==
    (op = "aggregate" /\ pc \in {"income", "monthlyIncome", "annualIncome"}) =>
        \A k \in 1..Len(stmt) : IncomeIdentities(stmt[k])

\* two annual statements were rolled up, one with a cost and with a revenue
\* account moved to otherOperating
C15_AnnualWithOtherOperating ==
    /\ op = "aggregate" /\ pc = "annualIncome"
    /\ Len(stmt) = 2
    /\ stmt[2].otherOperating > 0 /\ stmt[2].cogs > 0
    /\ stmt[2].ebit = stmt[2].otherOperating - stmt[2].cogs

\* the balance-sheet value of an account: from its closing balance alone
\* (closingOnly), or with a closing balance of zero replaced by the opening
\* balance plus the net movement of the account's nature
NatureValue(acc, closingOnly) ==
    IF closingOnly \/ acc.closingBalance # 0 \/ acc.accountType \notin {"asset", "liability", "equity"}
    THEN (IF acc.accountType = "asset" THEN acc.closingBalance ELSE Abs(acc.closingBalance))
    ELSE IF acc.accountType = "asset"
    THEN acc.openingBalance + acc.totalDebits - acc.totalCredits
    ELSE acc.openingBalance + acc.totalCredits - acc.totalDebits

\* the sum, over the balance-sheet mappings of field f whose code is in the
\* ledger, of the value of the mapped account times the mapping's sign
RECURSIVE MappedValues(_, _, _, _)
MappedValues(maps, accs, f, closingOnly) ==
    IF maps = <<>> THEN 0
    ELSE (IF /\ maps[1].targetStatement = "balance_sheet" /\ maps[1].targetField = f
             /\ \E k \in 1..Len(accs) : accs[k].code = maps[1].accountCode
          THEN NatureValue(accs[CHOOSE k \in 1..Len(accs) :
                                    accs[k].code = maps[1].accountCode], closingOnly)
               * maps[1].sign
          ELSE 0)
         + MappedValues(Tail(maps), accs, f, closingOnly)

MonthIndex(date) == ParseInt(Sub(date, 1, 4)) * 12 + ParseInt(Sub(date, 6, 7))

PeriodIndex(period) == period.year * 12 + period.month

\* no entry of the ledger is dated in the month of the period
NoEntriesIn(ledger, period) ==
    \A a \in 1..Len(ledger.accounts) : \A e \in 1..Len(ledger.accounts[a].entries) :
        MonthIndex(ledger.accounts[a].entries[e].date) # PeriodIndex(period)

IncomeFields ==
    DRE_TARGET_FIELDS \cup {"netRevenue", "grossProfit", "ebit", "ebt", "netIncome"}

BalanceFields == BALANCE_TARGET_FIELDS \cup {"totalAssets", "totalLiabilities"}

\* C17: monthly coverage: for a ledger whose period spans the months M1..Mn,
\* the monthly aggregators emit exactly one statement per calendar month of
\* the range, in chronological order; for an interior month with no entries
\* the balance-sheet fields equal the previous month's cumulative balances
\* and every income-statement field is exactly zero.
C17_MonthlyCoverage ==
    (op = "aggregate" /\ pc \in {"monthlyIncome", "monthlyBalance"}
        /\ out.periodStart # <<>> /\ out.periodEnd # <<>>) =>
        /\ Len(stmt) = MonthIndex(out.periodEnd) - MonthIndex(out.periodStart) + 1
        /\ \A k \in 1..Len(stmt) :
              /\ PeriodIndex(stmt[k].period) = MonthIndex(out.periodStart) + k - 1
              /\ stmt[k].period.month \in 1..12
              /\ (k > 1 /\ k < Len(stmt) /\ NoEntriesIn(out, stmt[k].period)) =>
                    IF pc = "monthlyIncome"
                    THEN \A f \in IncomeFields : stmt[k][f] = 0
                    ELSE \A f \in BalanceFields : stmt[k][f] = stmt[k - 1][f]

\* five monthly balance sheets over a year end: December, without entries,
\* carries November's cash balance
C17_GapMonthCarriesBalance ==
    /\ op = "aggregate" /\ pc = "monthlyBalance"
    /\ Len(stmt) = 5
    /\ stmt[1].period.year = 2023 /\ stmt[1].period.month = 11
    /\ stmt[3].period.year = 2024 /\ stmt[3].period.month = 1
    /\ NoEntriesIn(out, stmt[2].period)
    /\ stmt[2].operatingCash = 1100 * 100
    /\ stmt[3].operatingCash = 1040 * 100

\* C18: monthly-to-annual consistency: each field of the statements returned
\* by aggregateMonthlyToAnnual, summed over the years, equals the direct sum
\* of that field over all the months handed to it, and there is exactly one
\* annual statement per distinct year, in ascending year order.
C18_AnnualSumsMonths ==
    (op = "aggregate" /\ pc = "annualIncome") =>
        /\ \A f \in IncomeFields : SumField(stmt, f) = SumField(cur, f)
        /\ \A j \in 1..Len(cur) : \E k \in 1..Len(stmt) :
              stmt[k].period.year = cur[j].period.year
        /\ \A k \in 1..Len(stmt) : \E j \in 1..Len(cur) :
              stmt[k].period.year = cur[j].period.year
        /\ \A k \in 1..(Len(stmt) - 1) : stmt[k].period.year < stmt[k + 1].period.year

\* the twenty-four months of two full years, handed over last month first,
\* were rolled up into two annual statements with revenue in both
C18_TwoFullYears ==
    /\ op = "aggregate" /\ pc = "annualIncome"
    /\ Len(cur) = 24 /\ cur[1].period.month = 12 /\ cur[24].period.month = 1
    /\ Len(stmt) = 2
    /\ stmt[1].grossRevenue = 100 * 100
    /\ stmt[2].grossRevenue = 150 * 100


\* the fields of a balance sheet other than its period
SheetFields(bs) == DOMAIN bs \ {"period"}

\* sheet j of the list is the chronologically last sheet of its year
LastSheetOfYear(list, j) ==
    \A i \in 1..Len(list) :
        list[i].period.year = list[j].period.year =>
            list[i].period.month <= list[j].period.month

\* C19: aggregateMonthlyBsToAnnual returns, for each year present in its
\* input and in ascending year order, the field values of the chronologically
\* last monthly balance sheet of that year, whatever the order of the input
\* list; balances are never summed across months.
C19_LastSheetOfEachYear ==
    (op = "aggregate" /\ pc = "annualBalance") =>
        /\ \A j \in 1..Len(cur) :
              LastSheetOfYear(cur, j) =>
                  \E k \in 1..Len(stmt) :
                      /\ stmt[k].period.year = cur[j].period.year
                      /\ \A f \in SheetFields(cur[j]) : stmt[k][f] = cur[j][f]
        /\ \A k \in 1..Len(stmt) : \E j \in 1..Len(cur) :
              stmt[k].period.year = cur[j].period.year
        /\ \A k \in 1..(Len(stmt) - 1) : stmt[k].period.year < stmt[k + 1].period.year

\* the twenty-four monthly sheets of two years, handed over with December
\* 2023 ahead of a month of 2023 with another cash balance, were rolled up
\* into the December balances of the two years
C19_OutOfOrderTwoYears ==
    /\ op = "aggregate" /\ pc = "annualBalance"
    /\ Len(cur) = 24 /\ Len(stmt) = 2
    /\ \E i, j \in 1..24 :
          /\ i < j
          /\ cur[i].period.year = 2023 /\ cur[i].period.month = 12
          /\ cur[j].period.year = 2023 /\ cur[j].period.month < 12
          /\ cur[i].operatingCash # cur[j].operatingCash
    /\ stmt[1].period.year = 2023 /\ stmt[1].operatingCash = 1100 * 100
    /\ stmt[2].period.year = 2024 /\ stmt[2].operatingCash = 1040 * 100

\* the mappings whose account code is the code of an account of the ledger
PresentMappings(maps, accs) ==
    SelectSeq(maps, LAMBDA m : \E k \in 1..Len(accs) : accs[k].code = m.accountCode)

\* the accounts whose code is the account code of a mapping
MappedAccounts(accs, maps) ==
    SelectSeq(accs, LAMBDA a : \E k \in 1..Len(maps) : maps[k].accountCode = a.code)

\* the result of the aggregation function that leads to a position
AggregationOf(position, ledger, maps) ==
    CASE position = "income" ->
             <<[f \in {"period"} |-> WholePeriod(ledger)]
                @@ aggregateToIncomeStatement(ledger.accounts, maps)>>
      [] position = "balance" -> <<aggregateToBalanceSheet(ledger, maps)>>
      [] position = "monthlyIncome" -> aggregateToMonthlyIncomeStatements(ledger, maps)
      [] position = "monthlyBalance" -> aggregateToMonthlyBalanceSheets(ledger, maps)

\* two statements are of the same period
SamePeriod(a, b) == a.period.year = b.period.year /\ a.period.month = b.period.month

\* every statement of the second result has its period in the first, and
\* statements of the same period have the same figures
SameFigures(result, other) ==
    /\ \A j \in 1..Len(other) : \E k \in 1..Len(result) : SamePeriod(result[k], other[j])
    /\ \A k \in 1..Len(result) : \A j \in 1..Len(other) :
          SamePeriod(result[k], other[j]) =>
              \A f \in DOMAIN result[k] \ {"period"} : result[k][f] = other[j][f]

\* C20: the aggregation functions are total: for every ledger and mapping list
\* they return statements, an account with no matching mapping contributes
\* nothing, and a mapping whose accountCode matches no ledger account is
\* skipped, so the result equals the one computed with such mappings removed.
C20_TotalAndSkipping ==
    (op = "aggregate" /\ pc \in {"income", "balance", "monthlyIncome", "monthlyBalance"}) =>
        /\ \A k \in 1..Len(stmt) :
              \A f \in DOMAIN stmt[k] \ {"period"} : stmt[k][f] \in Int
        /\ stmt = AggregationOf(pc, out, PresentMappings(mappings, out.accounts))
        /\ SameFigures(stmt,
                       AggregationOf(pc,
                                     [out EXCEPT !.accounts = MappedAccounts(@, mappings)],
                                     mappings))

\* a ledger of a cost account without mapping and a mapped revenue account,
\* under a list that starts with a cost mapping of an absent account: the
\* November statement has the revenue and no cost
C20_OrphanAndUnmapped ==
    /\ op = "aggregate" /\ pc = "monthlyIncome"
    /\ Len(out.accounts) = 2
    /\ out.accounts[1].code = <<"4",".","1",".","0","1">> /\ out.accounts[2].code = <<"3",".","1",".","0","1">>
    /\ mappings[1].accountCode = <<"9",".","9",".","9","9">> /\ mappings[1].targetField = "cogs"
    /\ \A k \in 1..Len(mappings) : mappings[k].accountCode # <<"4",".","1",".","0","1">>
    /\ Len(stmt) = 5
    /\ stmt[1].grossRevenue = 100 * 100 /\ stmt[1].cogs = 0

-----------------------------------------------------------------------------
(* Specification SpecWizard: the import step of the wizard (StepRazaoImport).
   The React state is held in rows (rawRows), config (columnConfig, <<>> for
   null), out (parsedLedger, <<>> for null), mappings and env (file, sheets,
   selectedSheet, subStep, loading, error); cur is the set of asynchronous
   continuations not yet run, each with the values its closure captured; stmt
   lists the imports requested, in order. env.unhandled tells that an error
   reached the runtime outside every try block. *)

\* the largest number of imports requested in one behaviour
MaxImports == 3

\* a sheet with column titles, one account header and one transaction
WizardGrid(header, amount) ==
    << <<Str(<<"D","a","t","a">>), Str(<<"H","i","s","t","ó","r","i","c","o">>), Str(<<"D","é","b","i","t","o">>), Str(<<"C","r","é","d","i","t","o">>), Str(<<"S","a","l","d","o">>)>>,
       <<Str(header)>>,
       <<Str(<<"0","5","/","0","1","/","2","0","2","4">>), Str(<<"a">>), Num(amount), Num(0), Num(amount)>> >>

\* a sheet in which no column can be detected
UnlabeledGrid ==
    << <<Str(<<"3",".","1",".","0","1"," ","-"," ","R","e","c","e","i","t","a"," ","d","e"," ","V","e","n","d","a","s">>)>>,
       <<Str(<<"0","5","/","0","1","/","2","0","2","4">>), Str(<<"V","e","n","d","a">>), Str(<<"x">>)>> >>

\* the files offered to the wizard: a workbook with a ledger sheet and a
\* sheet without cells, a workbook with another ledger, a file no reader
\* opens, a workbook whose sheet has no detectable columns, and a legacy
\* workbook whose stream holds no cell record
WizardFiles == {
    [name |-> <<"a",".","x","l","s","x">>, read |-> "ok", names |-> <<<<"P","l","a","n","1">>, <<"P","l","a","n","2">>>>,
     grids |-> <<WizardGrid(<<"1",".","1",".","0","1"," ","-"," ","C","a","i","x","a">>, 100 * 100), <<>>>>,
     cfb |-> "throws", bytes |-> <<>>],
    [name |-> <<"b",".","x","l","s","x">>, read |-> "ok", names |-> <<<<"P","l","a","n","1">>>>,
     grids |-> <<WizardGrid(<<"4",".","1",".","0","1"," ","-"," ","C","u","s","t","o"," ","d","a","s"," ","M","e","r","c","a","d","o","r","i","a","s">>, 200 * 100)>>,
     cfb |-> "throws", bytes |-> <<>>],
    [name |-> <<"c",".","x","l","s">>, read |-> "throws", names |-> <<>>, grids |-> <<>>,
     cfb |-> "throws", bytes |-> <<>>],
    [name |-> <<"d",".","x","l","s","x">>, read |-> "ok", names |-> <<<<"P","l","a","n","1">>>>,
     grids |-> <<UnlabeledGrid>>,
     cfb |-> "throws", bytes |-> <<>>],
    [name |-> <<"e",".","x","l","s">>, read |-> "throws", names |-> <<>>, grids |-> <<>>,
     cfb |-> "stream", bytes |-> <<>>]}

\* the index of a sheet name among the names of a workbook, 0 when absent
SheetIndex(names, sheetName) ==
    IF \E k \in 1..Len(names) : names[k] = sheetName
    THEN CHOOSE k \in 1..Len(names) : names[k] = sheetName
    ELSE 0

\* workbook.Sheets[target] as the try block of readRawRows finds it
SheetAt(f, at) ==
    [read  |-> IF f.read = "throws" THEN "throws"
               ELSE IF at = 0 THEN "nosheet"
               ELSE IF f.grids[at] = <<>> THEN "noref"
               ELSE "rows",
     grid  |-> IF f.read = "throws" \/ at = 0 THEN <<>> ELSE f.grids[at],
     names |-> f.names,
     cfb   |-> f.cfb,
     bytes |-> f.bytes]

\* target = sheetName ?? workbook.SheetNames[0]; <<>> stands for undefined
TargetSheet(f, sheetName) ==
    IF sheetName # <<>> THEN SheetAt(f, SheetIndex(f.names, sheetName))
    ELSE SheetAt(f, IF Len(f.names) > 0 THEN 1 ELSE 0)

\* readRawRows on the sheet found: the rows of the standard reader, or what
\* parseBiffManual gives; when it raises, in the try block and then again in
\* the catch block, the promise is rejected
ReadSheet(e) ==
    IF e.read # "throws" /\ StandardHasRows(e) THEN StandardResult(e)
    ELSE parseBiffManual(e, e.bytes)

\* readRawRows(file, sheetName): kind "rows" when the promise resolves,
\* "raised" when it is rejected
readRawRows(f, sheetName) == ReadSheet(TargetSheet(f, sheetName))

\* the sheet names a request can carry; <<>> stands for undefined
SheetNames == {<<>>} \cup UNION {{f.names[k] : k \in 1..Len(f.names)} : f \in WizardFiles}

\* readRawRows on each file and sheet name
ReadOf == [f \in WizardFiles |-> [n \in SheetNames |-> readRawRows(f, n)]]

\* the row sets the wizard can hold
WizardRows == {<<>>} \cup {ReadOf[f][n].rows : f \in WizardFiles, n \in SheetNames}

\* autoDetectColumns on each of them
DetectedOf == [g \in WizardRows |-> autoDetectColumns(g)]

\* the column configurations the wizard can hold: those detected, and those
\* the date selector makes of them or of none
BlankConfig ==
    [dateCol |-> -1, descriptionCol |-> -1, debitCol |-> -1,
     creditCol |-> -1, balanceCol |-> -1, balanceExCol |-> -1]

WizardConfigs ==
    { [c EXCEPT !.dateCol = d] :
        c \in {BlankConfig} \cup {DetectedOf[g].cfg[1] : g \in {h \in WizardRows : DetectedOf[h].kind = "config"}},
        d \in {-1, 0} }
    \cup {DetectedOf[g].cfg[1] : g \in {h \in WizardRows : DetectedOf[h].kind = "config"}}

\* parseLedger on each row set and configuration
ParsedOf == [g \in WizardRows |-> [c \in WizardConfigs |-> parseLedger(g, c)]]

\* the state handleFileSelect leaves when readRawRows resolved with rows
\* and autoDetectColumns returned det
SelectDetected(w, t, res, det) ==
    IF det.kind = "raised"
    THEN [rows |-> res.rows, config |-> config, out |-> out, mappings |-> mappings,
          env |-> [w EXCEPT !.sheets = res.sheets, !.error = "read", !.loading = FALSE]]
    ELSE IF det.kind = "config"
    THEN [rows |-> res.rows, config |-> det.cfg[1],
          out |-> [accounts |-> ParsedOf[res.rows][det.cfg[1]]],
          mappings |-> autoMapAccounts(ParsedOf[res.rows][det.cfg[1]]),
          env |-> [w EXCEPT !.sheets = res.sheets, !.subStep = "review",
                            !.selectedSheet = IF Len(res.sheets) > 1 THEN res.sheets[1] ELSE @,
                            !.loading = FALSE]]
    ELSE [rows |-> res.rows, config |-> <<>>, out |-> out, mappings |-> mappings,
          env |-> [w EXCEPT !.sheets = res.sheets, !.subStep = "columns",
                            !.selectedSheet = IF Len(res.sheets) > 1 THEN res.sheets[1] ELSE @,
                            !.loading = FALSE]]

\* the state handleFileSelect leaves after the await, res being the outcome
\* of readRawRows
SelectSettled(w, t, res) ==
    IF res.kind = "raised"
    THEN [rows |-> rows, config |-> config, out |-> out, mappings |-> mappings,
          env |-> [w EXCEPT !.error = "read", !.loading = FALSE]]
    ELSE IF Len(res.rows) = 0
    THEN [rows |-> res.rows, config |-> config, out |-> out, mappings |-> mappings,
          env |-> [w EXCEPT !.sheets = res.sheets, !.error = "nodata", !.loading = FALSE]]
    ELSE SelectDetected(w, t, res, DetectedOf[res.rows])

\* the state handleSheetChange leaves after the await: nothing catches a
\* rejection or an error of autoDetectColumns, and loading stays true
SheetDetected(w, res, det) ==
    IF det.kind = "raised"
    THEN [rows |-> res.rows, config |-> config, env |-> [w EXCEPT !.unhandled = TRUE]]
    ELSE [rows |-> res.rows,
          config |-> IF det.kind = "config" THEN det.cfg[1] ELSE <<>>,
          env |-> [w EXCEPT !.loading = FALSE]]

SheetSettled(w, res) ==
    IF res.kind = "raised"
    THEN [rows |-> rows, config |-> config, env |-> [w EXCEPT !.unhandled = TRUE]]
    ELSE SheetDetected(w, res, DetectedOf[res.rows])

\* a request entered in the list of imports; overlapped tells that an
\* earlier continuation was still to run
Request(kind, f, sheetName) ==
    [kind |-> kind, file |-> f.name, sheet |-> sheetName, overlapped |-> cur # {}]

\* a continuation waiting to run
Task(kind, f, sheetName) ==
    [n |-> Len(stmt) + 1, kind |-> kind, file |-> f, sheet |-> sheetName,
     rows |-> rows, config |-> config]

\* the file whose name the state holds
FileNamed(name) == CHOOSE f \in WizardFiles : f.name = name

\* handleFileSelect(f) up to the await
FileSelect ==
    /\ op = "wizard" /\ env.subStep = "upload" /\ Len(stmt) < MaxImports
    /\ \E f \in WizardFiles :
          /\ env' = [env EXCEPT !.file = f.name, !.loading = TRUE, !.error = ""]
          /\ cur' = cur \cup {Task("select", f, <<>>)}
          /\ stmt' = Append(stmt, Request("select", f, <<>>))
    /\ UNCHANGED <<op, pc, rows, curRow, nRead, config, accounts, out, mappings,
                   data, biff>>

\* handleFileSelect after the await
FileSelectSettle ==
    /\ op = "wizard"
    /\ \E t \in cur :
          /\ t.kind = "select"
          /\ \E next \in {SelectSettled(env, t, ReadOf[t.file][<<>>])} :
                /\ rows' = next.rows /\ config' = next.config /\ out' = next.out
                /\ mappings' = next.mappings /\ env' = next.env
          /\ cur' = cur \ {t}
    /\ UNCHANGED <<op, pc, curRow, nRead, accounts, stmt, data, biff>>

\* handleSheetChange(sheetName) up to the await; the selector is shown when
\* the workbook has more than one sheet
SheetChange ==
    /\ op = "wizard" /\ env.subStep = "upload" /\ Len(stmt) < MaxImports
    /\ env.file # <<>> /\ Len(env.sheets) > 1
    /\ \E k \in 1..Len(env.sheets) :
          /\ env' = [env EXCEPT !.selectedSheet = env.sheets[k], !.loading = TRUE]
          /\ cur' = cur \cup {Task("sheet", FileNamed(env.file), env.sheets[k])}
          /\ stmt' = Append(stmt, Request("sheet", FileNamed(env.file), env.sheets[k]))
    /\ UNCHANGED <<op, pc, rows, curRow, nRead, config, accounts, out, mappings,
                   data, biff>>

\* handleSheetChange after the await
SheetChangeSettle ==
    /\ op = "wizard"
    /\ \E t \in cur :
          /\ t.kind = "sheet"
          /\ \E next \in {SheetSettled(env, ReadOf[t.file][t.sheet])} :
                rows' = next.rows /\ config' = next.config /\ env' = next.env
          /\ cur' = cur \ {t}
    /\ UNCHANGED <<op, pc, curRow, nRead, accounts, out, mappings, stmt, data, biff>>

\* the 'Avançar' button of the upload step
GoToColumns ==
    /\ op = "wizard" /\ env.subStep = "upload"
    /\ Len(rows) > 0 /\ ~env.loading
    /\ env' = [env EXCEPT !.subStep = "columns"]
    /\ UNCHANGED <<op, pc, rows, curRow, nRead, config, cur, accounts, out, mappings,
                   stmt, data, biff>>

\* the 'Voltar' buttons of the columns and review steps
GoBack ==
    /\ op = "wizard" /\ env.subStep \in {"columns", "review"}
    /\ env' = [env EXCEPT !.subStep = IF @ = "review" THEN "columns" ELSE "upload"]
    /\ UNCHANGED <<op, pc, rows, curRow, nRead, config, cur, accounts, out, mappings,
                   stmt, data, biff>>

\* a column selector of the columns step sets the date column
SetDateColumn ==
    /\ op = "wizard" /\ env.subStep = "columns"
    /\ \E c \in {-1, 0} :
          config' = IF config = <<>>
                    THEN [BlankConfig EXCEPT !.dateCol = c]
                    ELSE [config EXCEPT !.dateCol = c]
    /\ config' # config
    /\ UNCHANGED <<op, pc, rows, curRow, nRead, cur, accounts, out, mappings, stmt,
                   data, biff, env>>

\* handleParse up to the timer; the button is disabled without a date column
\* and while loading
Parse ==
    /\ op = "wizard" /\ env.subStep = "columns" /\ Len(stmt) < MaxImports
    /\ config # <<>> /\ config.dateCol >= 0 /\ ~env.loading
    /\ env' = [env EXCEPT !.loading = TRUE]
    /\ cur' = cur \cup {Task("parse", FileNamed(env.file), <<>>)}
    /\ stmt' = Append(stmt, Request("parse", FileNamed(env.file), <<>>))
    /\ UNCHANGED <<op, pc, rows, curRow, nRead, config, accounts, out, mappings,
                   data, biff>>

\* the timer callback of handleParse, on the rows and the configuration its
\* closure captured
ParseSettle ==
    /\ op = "wizard"
    /\ \E t \in cur :
          /\ t.kind = "parse"
          /\ out' = [accounts |-> ParsedOf[t.rows][t.config]]
          /\ mappings' = autoMapAccounts(ParsedOf[t.rows][t.config])
          /\ env' = [env EXCEPT !.loading = FALSE, !.subStep = "review"]
          /\ cur' = cur \ {t}
    /\ UNCHANGED <<op, pc, rows, curRow, nRead, config, accounts, stmt, data, biff>>

InitWizard ==
    /\ op = "wizard" /\ pc = "mounted"
    /\ rows = <<>> /\ curRow = <<>> /\ nRead = 0
    /\ config = <<>>
    /\ cur = {} /\ accounts = <<>> /\ out = <<>>
    /\ mappings = <<>> /\ stmt = <<>>
    /\ data = <<>> /\ biff = <<>>
    /\ env = [file |-> <<>>, sheets |-> <<>>, selectedSheet |-> <<>>,
              subStep |-> "upload", loading |-> FALSE, error |-> "",
              unhandled |-> FALSE]

NextWizard ==
    \/ FileSelect \/ FileSelectSettle
    \/ SheetChange \/ SheetChangeSettle
    \/ GoToColumns \/ GoBack \/ SetDateColumn
    \/ Parse \/ ParseSettle

SpecWizard == InitWizard /\ [][NextWizard]_vars

\* the continuations run: a promise settles and a timer fires
SpecWizardFair ==
    /\ SpecWizard
    /\ WF_vars(FileSelectSettle) /\ WF_vars(SheetChangeSettle) /\ WF_vars(ParseSettle)

\* the wizard holds the outcome of an import: it is not loading, and it
\* shows an error message or holds rows or a parsed ledger
Resolved == ~env.loading /\ (env.error # "" \/ Len(rows) > 0 \/ out # <<>>)

\* C21: every import attempt started in the import wizard (selecting a file,
\* changing the sheet, or running the parse with a manual column
\* configuration) eventually resolves with loading = false and either a
\* usable parsed ledger / row set or a single error message; no failure of
\* the decoder leaves the wizard in the loading state or escapes as an
\* unhandled error.
C21_ImportsResolve ==
    /\ [](op = "wizard" => ~env.unhandled)
    /\ (op = "wizard" /\ env.loading) ~> (op = "wizard" /\ Resolved)

\* the second sheet of a.xlsx was requested, readRawRows was rejected, and
\* with nothing left to run the wizard is loading, with no error message
C21_SheetChangeStuck ==
    /\ op = "wizard" /\ cur = {}
    /\ Len(stmt) = 2 /\ stmt[2].kind = "sheet" /\ stmt[2].sheet = <<"P","l","a","n","2">>
    /\ env.unhandled /\ env.loading /\ env.error = ""

\* the rows, the parsed ledger and the mappings are those of the import of
\* file f: what readRawRows gives for it and, when the columns are detected,
\* what parseLedger and autoMapAccounts make of the rows
DerivedFromFile(f, res) ==
    (res.kind = "rows" /\ Len(res.rows) > 0) =>
        /\ rows = res.rows
        /\ DetectedOf[res.rows].kind = "config" =>
              /\ out = [accounts |-> ParsedOf[res.rows][DetectedOf[res.rows].cfg[1]]]
              /\ mappings = autoMapAccounts(out.accounts)

\* the rows are those of a sheet of the selected file
DerivedFromSheet(res) == res.kind = "rows" => rows = res.rows

\* the state derives from the request r
DerivedFrom(r) ==
    /\ env.file = r.file
    /\ r.kind = "select" => DerivedFromFile(FileNamed(r.file), ReadOf[FileNamed(r.file)][<<>>])
    /\ r.kind = "sheet" => DerivedFromSheet(ReadOf[FileNamed(r.file)][r.sheet])
    /\ r.kind = "parse" => mappings = autoMapAccounts(out.accounts)

\* C30: overlapping imports in the wizard do not mix state: when a second
\* file is selected (or a sheet change or manual parse is started) before an
\* earlier asynchronous read or deferred parse has completed, then once
\* loading is false (and every continuation has run) the selected file, the
\* raw rows, the parsed ledger and the mappings all derive from the same,
\* most recently requested import.
C30_NoMixedState ==
    (/\ op = "wizard" /\ cur = {} /\ ~env.loading
     /\ \E k \in 1..Len(stmt) : stmt[k].overlapped)
    => DerivedFrom(stmt[Len(stmt)])

\* a.xlsx was selected and then b.xlsx before the first read completed; the
\* second read completed first, and the wizard shows file b.xlsx with the
\* rows, the ledger and the mappings of a.xlsx
C30_FirstReadCompletesLast ==
    /\ op = "wizard" /\ cur = {} /\ ~env.loading /\ env.error = ""
    /\ Len(stmt) = 2
    /\ stmt[1].file = <<"a",".","x","l","s","x">> /\ stmt[2].file = <<"b",".","x","l","s","x">> /\ stmt[2].overlapped
    /\ env.file = <<"b",".","x","l","s","x">>
    /\ rows = ReadOf[FileNamed(<<"a",".","x","l","s","x">>)][<<>>].rows
    /\ Len(out.accounts) = 1 /\ out.accounts[1].code = <<"1",".","1",".","0","1">>
    /\ mappings[1].accountCode = <<"1",".","1",".","0","1">>

-----------------------------------------------------------------------------
(* Specification SpecNumeric: parseNumericCell on one cell. cur holds the
   parts the text of the cell is made of, curRow the row with the cell (the
   empty row when the cell is absent). *)

\* what may precede the digits of an amount
NumericOpens == {<<>>, <<"(">>, <<"-">>, <<" "," ">>}

\* the amounts and the texts that are none
NumericBodies == {<<"5","0","0">>, <<"1",".","2","3","4",",","5","6">>, <<"1","2","3","4",".","5","6">>, <<"0">>, <<"1","2",",","5">>, <<"1",".","0","0","0",".","0","0","0",",","0","0">>,
                  <<"a","b","c">>, <<>>, <<"R","$">>, <<"-">>}

\* the debit / credit marker after an amount
NumericMarkers == {<<>>, <<"D">>, <<" ","C">>, <<"d">>, <<" ","c"," "," ">>}

\* the text of a cell without and with its marker
PlainText(p) == p.open \o p.body \o (IF p.open = <<"(">> THEN <<")">> ELSE <<>>)
MarkedText(p) == PlainText(p) \o p.marker

\* the cells handed to parseNumericCell: texts, numbers, null, and a cell
\* past the end of its row
NumericInputs ==
    { [kind |-> "text", open |-> o, body |-> b, marker |-> m] :
        o \in NumericOpens, b \in NumericBodies, m \in NumericMarkers }
    \cup { [kind |-> k, open |-> <<>>, body |-> <<>>, marker |-> <<>>] :
             k \in {"number", "negative", "null", "absent"} }

\* the row holding the cell
NumericRow(p) ==
    CASE p.kind = "text" -> <<Str(MarkedText(p))>>
      [] p.kind = "number" -> <<Num(123456)>>
      [] p.kind = "negative" -> <<Num(-500 * 100)>>
      [] p.kind = "null" -> <<NullCell>>
      [] p.kind = "absent" -> <<>>

\* parseNumericCell(row[0])
NumericParse ==
    /\ op = "numeric" /\ pc = "cell"
    /\ out' = parseNumericCell(At(curRow, 0))
    /\ pc' = "done"
    /\ UNCHANGED <<op, rows, curRow, nRead, config, cur, accounts, mappings, stmt,
                   data, biff, env>>

InitNumeric ==
    /\ op = "numeric" /\ pc = "cell"
    /\ cur \in NumericInputs
    /\ curRow = NumericRow(cur)
    /\ rows = <<>> /\ nRead = 0
    /\ config = <<>>
    /\ accounts = <<>> /\ out = <<>>
    /\ mappings = <<>> /\ stmt = <<>>
    /\ data = <<>> /\ biff = <<>> /\ env = <<>>

NextNumeric == NumericParse

SpecNumeric == InitNumeric /\ [][NextNumeric]_vars

\* a text without any digit
NoDigit(s) == \A k \in 1..Len(s) : s[k] \notin Digits

\* C22: parseNumericCell never raises and degrades to a safe default:
\* '1.234,56' gives 1234.56, '(500)' gives -500, a trailing debit/credit
\* marker letter is trimmed before parsing, and unparseable text, an empty
\* string, null or an absent cell give 0.
C22_NumericDefaults ==
    (op = "numeric" /\ pc = "done") =>
        /\ out \in Int
        /\ cur.kind \in {"null", "absent"} => out = 0
        /\ cur.kind = "text" =>
              /\ (cur.open = <<>> /\ cur.body = <<"1",".","2","3","4",",","5","6">>) => out = 123456
              /\ (cur.open = <<"(">> /\ cur.body = <<"5","0","0">>) => out = -500 * 100
              /\ out = parseNumericCell(Str(PlainText(cur)))
              /\ NoDigit(cur.body) => out = 0

\* the text '(500) C' was read as -500
C22_ParenthesizedWithMarker ==
    /\ op = "numeric" /\ pc = "done"
    /\ curRow = <<Str(<<"(","5","0","0",")"," ","C">>)>>
    /\ out = -500 * 100

-----------------------------------------------------------------------------
(* Claims on the loop of parseLedger, under SpecParse *)

\* a cell holding a number that is not an integer
IsFraction(c) == c.t = "num" /\ c.v % 100 # 0

\* a row with a date in the date column and a non-integer number in the
\* debit, credit or balance column, which is not blank, page header, column
\* header or saldo / total row, and none of whose texts is an account header
AmountRow(r) ==
    /\ PastHeaders(r) /\ Facts[r].saldoType = 0
    /\ isDateCell(At(r, LedgerConfig.dateCol))
    /\ \/ IsFraction(At(r, LedgerConfig.debitCol))
       \/ IsFraction(At(r, LedgerConfig.creditCol))
       \/ IsFraction(At(r, LedgerConfig.balanceCol))
    /\ \A k \in 1..Len(r) : r[k].t = "str" => ~detectAccountHeader(<<r[k]>>).ok

\* C23: while an account is being assembled, a row whose configured date
\* column holds a recognizable date and whose debit, credit or balance cell
\* holds a non-integer numeric amount (for example the number 1234.56) is
\* recorded as one LedgerEntry of the current account; it does not finalize
\* the current account and does not start a new account.
C23_Step ==
    (op = "parse" /\ nRead' = nRead + 1 /\ cur # <<>> /\ AmountRow(curRow')) =>
        /\ accounts' = accounts
        /\ cur' = <<[cur[1] EXCEPT !.entries = Append(@, Facts[curRow'].entry)]>>

C23_AmountRowIsEntry == [][C23_Step]_vars

\* with account 1.1.01 open, the row of 20/01/2024 with the balance 1234.56
\* emitted it and opened an account of code '1234.56'
C23_AmountOpensAccount ==
    /\ op = "parse" /\ pc = "scan" /\ nRead = 2
    /\ AmountRow(curRow)
    /\ Len(accounts) = 1 /\ accounts[1].code = <<"1",".","1",".","0","1">>
    /\ cur # <<>> /\ cur[1].code = <<"1","2","3","4",".","5","6">> /\ cur[1].entries = <<>>

\* the row is classified as an account header: it is not blank, page header
\* or column header, and detectAccountHeader finds a code in it
HeaderRow(r) == PastHeaders(r) /\ Facts[r].accountHeader.ok

\* the accounts emitted so far followed by the account in progress
Assembled(emitted, c) ==
    IF c # <<>> THEN Append(emitted, finalizeAccount(c[1])) ELSE emitted

\* C24: the parser is a two-state machine (NO_ACCOUNT, IN_ACCOUNT): saldo /
\* total rows and transaction rows seen before the first account header
\* change nothing; each account-header row finalizes and emits the account in
\* progress and opens a new one, so that the accounts emitted and in progress
\* grow by one with each account-header row and with no other row; every
\* entry and every balance / total update goes to the account in progress,
\* the one whose header row most recently preceded it; and at end of input
\* the account in progress is finalized and emitted.
C24_Step ==
    /\ (op = "parse" /\ nRead' = nRead + 1) =>
          /\ (cur = <<>> /\ ~HeaderRow(curRow')) => (cur' = <<>> /\ accounts' = accounts)
          /\ HeaderRow(curRow') =>
                /\ accounts' = Assembled(accounts, cur)
                /\ cur' # <<>> /\ cur'[1].code = Facts[curRow'].accountHeader.code
                /\ cur'[1].entries = <<>>
                /\ Len(accounts') + Len(cur') = Len(accounts) + Len(cur) + 1
          /\ ~HeaderRow(curRow') =>
                /\ accounts' = accounts
                /\ Len(cur') = Len(cur)
                /\ cur # <<>> => cur'[1].code = cur[1].code
    /\ (op = "parse" /\ pc = "scan" /\ pc' = "done") =>
          out' = deduplicateAccounts(Assembled(accounts, cur))

C24_TwoStateMachine == [][C24_Step]_vars

\* at end of input one account had been emitted and another was in progress
\* with an entry, and both were returned
C24_LastAccountEmitted ==
    /\ op = "parse" /\ pc = "done"
    /\ Len(accounts) = 1 /\ cur # <<>> /\ Len(cur[1].entries) = 1
    /\ accounts[1].code # cur[1].code
    /\ Len(out) = 2
    /\ \E k \in 1..2 : out[k].code = cur[1].code /\ Len(out[k].entries) = 1

\* the balance recorded by the last entry of a list, 0 when it has none
LastBalance(entries) ==
    IF entries = <<>> THEN 0 ELSE entries[Len(entries)].balance

\* the account a, emitted for the account c as it stood in progress, has the
\* totals of c's entries when c had no totals, and the balance of c's last
\* entry as closing balance when c had none
FinalizedFrom(a, c) ==
    /\ (c.totalDebits = 0 /\ c.totalCredits = 0) =>
          /\ a.totalDebits = SumField(c.entries, "debit")
          /\ a.totalCredits = SumField(c.entries, "credit")
    /\ c.closingBalance = 0 => a.closingBalance = LastBalance(c.entries)

\* C25: finalization: for every account for which no totals row was seen (its
\* totals are still 0 when it is emitted), totalDebits and totalCredits equal
\* the sums of the debit and credit amounts over its entries; for every
\* account for which no final-balance row was seen (its closing balance is
\* still 0), closingBalance equals the last entry's recorded balance when
\* that balance is non-zero and 0 otherwise.
C25_Step ==
    /\ (op = "parse" /\ nRead' = nRead + 1 /\ cur # <<>> /\ HeaderRow(curRow')) =>
          /\ Len(accounts') = Len(accounts) + 1
          /\ FinalizedFrom(accounts'[Len(accounts')], cur[1])
    /\ (op = "parse" /\ pc = "scan" /\ pc' = "done" /\ cur # <<>> /\ accounts = <<>>) =>
          /\ Len(out') = 1
          /\ FinalizedFrom(out'[1], cur[1])

C25_Finalization == [][C25_Step]_vars

\* an account with two entries and neither saldo nor totals row was
\* returned at end of input: its totals are the sums over the entries and its
\* closing balance is the balance of the second entry
C25_DerivedFromEntries ==
    /\ op = "parse" /\ pc = "done" /\ nRead = 3
    /\ accounts = <<>> /\ cur # <<>> /\ Len(cur[1].entries) = 2
    /\ cur[1].totalDebits = 0 /\ cur[1].totalCredits = 0 /\ cur[1].closingBalance = 0
    /\ cur[1].entries[2].balance # 0
    /\ cur[1].entries[2].balance # cur[1].entries[1].balance
    /\ Len(out) = 1
    /\ out[1].closingBalance = cur[1].entries[2].balance
    /\ out[1].totalDebits = cur[1].entries[1].debit + cur[1].entries[2].debit
    /\ out[1].totalDebits > 0

\* the row is classified as a totals row: a saldo / total row whose keyword
\* holds 'totais' or 'total'
TotalsRow(r) ==
    /\ PastHeaders(r) /\ ~Facts[r].accountHeader.ok /\ Facts[r].saldoType # 0
    /\ \/ Includes(SALDO_KEYWORDS[Facts[r].saldoType], kwTotais)
       \/ Includes(SALDO_KEYWORDS[Facts[r].saldoType], kwTotal)

\* C27: totals rows update running totals: when one account section contains
\* several period / monthly totals rows, the account's totalDebits and
\* totalCredits equal the sums of the debit and credit values over all of
\* those rows, each totals row adding its values to the totals so far, and
\* not the values of the last totals row only.
C27_Step ==
    (op = "parse" /\ nRead' = nRead + 1 /\ cur # <<>> /\ TotalsRow(curRow')) =>
        /\ cur'[1].totalDebits = cur[1].totalDebits + Facts[curRow'].debit
        /\ cur'[1].totalCredits = cur[1].totalCredits + Facts[curRow'].credit

C27_RunningTotals == [][C27_Step]_vars

\* after the totals row of the month (debit 300, credit 600) and the totals
\* row of the period (debit 500, credit 0) the account has debits 500, the
\* value of the last row, and credits 600
C27_LastTotalsRowWins ==
    /\ op = "parse" /\ pc = "scan" /\ nRead = 3
    /\ accounts = <<>> /\ cur # <<>> /\ cur[1].entries = <<>>
    /\ TotalsRow(curRow) /\ Facts[curRow].debit = 500 * 100
    /\ cur[1].totalDebits = 500 * 100
    /\ cur[1].totalCredits = 600 * 100

-----------------------------------------------------------------------------
(* Claims on autoDetectColumns, under SpecDetect *)

\* a row with an absent cell between its populated columns
SparseRow(r) == \E k \in 1..Len(r) : r[k].t = "hole"

\* C26: autoDetectColumns returns a ColumnConfig or null (undetected) for
\* every grid of raw rows and never raises, including rows of differing
\* length and rows in which some cells are absent, such as the sparse rows
\* that the binary record reader materializes when a row has gaps between its
\* populated columns.
C26_DetectNeverRaises ==
    (op = "detect" /\ pc = "done") => out.kind \in {"config", "null"}

\* a grid whose first row is the labelled row with an absent second cell
\* made autoDetectColumns raise, although the row names the date, debit and
\* credit columns
C26_LabelledSparseRowRaised ==
    /\ op = "detect" /\ pc = "done"
    /\ Len(rows) >= 1 /\ SparseRow(rows[1])
    /\ rows[1][1] = Str(<<"D","a","t","a">>) /\ rows[1][3] = Str(<<"D","é","b","i","t","o">>)
    /\ out.kind = "raised"
-----------------------------------------------------------------------------
(* The auto-mapper and the partition between the statements *)

\* the code belongs to the asset or to the liability and equity group
PatrimonialCode(code) == StartsWith(code, <<"1",".">>) \/ StartsWith(code, <<"2",".">>)

\* the code belongs to a revenue or expense group
ResultCode(code) ==
    \/ StartsWith(code, <<"3",".">>) \/ StartsWith(code, <<"4",".">>)
    \/ StartsWith(code, <<"5",".">>) \/ StartsWith(code, <<"6",".">>)

\* C28: autoMapAccounts never assigns an account whose code starts with 1. or
\* 2. to an income-statement field, never assigns an account whose code
\* starts with 3., 4., 5. or 6. to a balance-sheet field, whatever the name,
\* and in every mapping targetStatement is 'ignore' exactly when targetField
\* is empty.
C28_StatementPartition ==
    (op = "automap" /\ pc = "mapped") =>
        \A k \in 1..Len(mappings) :
            /\ PatrimonialCode(mappings[k].accountCode) =>
                   mappings[k].targetField \notin DRE_TARGET_FIELDS
            /\ ResultCode(mappings[k].accountCode) =>
                   mappings[k].targetField \notin BALANCE_TARGET_FIELDS
            /\ mappings[k].targetStatement = "ignore" <=> mappings[k].targetField = ""

\* the asset account 1.1.05 'Custos a Apropriar' was mapped to the income
\* statement field cogs, next to a result account named 'Caixa' left unmapped
C28_AssetMappedToCogs ==
    /\ op = "automap" /\ pc = "mapped"
    /\ Len(mappings) = 2
    /\ mappings[1].accountCode = <<"1",".","1",".","0","5">>
    /\ mappings[1].targetField = "cogs"
    /\ mappings[1].targetStatement = "income_statement"
    /\ mappings[2].accountCode = <<"5",".","1",".","0","2">>
    /\ mappings[2].targetStatement = "ignore"

-----------------------------------------------------------------------------
(* The two granularities of the income statement *)

\* the ledger has no totals rows: finalizeAccount left in every account the
\* sums of its entries
TotalsFromEntries(ledger) ==
    \A a \in 1..Len(ledger.accounts) :
        /\ ledger.accounts[a].totalDebits = SumField(ledger.accounts[a].entries, "debit")
        /\ ledger.accounts[a].totalCredits = SumField(ledger.accounts[a].entries, "credit")

\* the period range of the ledger covers the date of every entry; a ledger
\* without a period in its header takes the range of its entry dates
PeriodCoversEntries(ledger) ==
    (ledger.periodStart # <<>> /\ ledger.periodEnd # <<>>) =>
        \A a \in 1..Len(ledger.accounts) : \A e \in 1..Len(ledger.accounts[a].entries) :
            /\ DateLeq(ledger.periodStart, ledger.accounts[a].entries[e].date)
            /\ DateLeq(ledger.accounts[a].entries[e].date, ledger.periodEnd)

\* C29: for a parsed ledger with no totals rows whose period range covers the
\* date of every entry, and for every mapping list, each income-statement
\* field of aggregateToIncomeStatement equals the sum of that field over the
\* statements returned by aggregateToMonthlyIncomeStatements.
C29_GranularitiesAgree ==
    (op = "aggregate" /\ pc = "income"
        /\ TotalsFromEntries(out) /\ PeriodCoversEntries(out)) =>
        \A f \in IncomeFields :
            stmt[1][f] = SumField(aggregateToMonthlyIncomeStatements(out, mappings), f)

\* the single-period statement of a revenue and a cost account with entries
\* in November 2023 and January 2024, under a header period of five months
\* that covers both
C29_TwoMonthsOneStatement ==
    /\ op = "aggregate" /\ pc = "income"
    /\ out.periodStart = <<"2","0","2","3","-","1","1","-","0","1">> /\ out.periodEnd = <<"2","0","2","4","-","0","3","-","3","1">>
    /\ Len(out.accounts) = 2
    /\ out.accounts[1].code = <<"3",".","1",".","0","1">> /\ out.accounts[2].code = <<"4",".","1",".","0","1">>
    /\ mappings = autoMapAccounts(out.accounts)
    /\ TotalsFromEntries(out) /\ PeriodCoversEntries(out)
    /\ stmt[1].grossRevenue = 250 * 100
    /\ stmt[1].cogs = 100 * 100
    /\ stmt[1].netIncome = 150 * 100
====
